---- MODULE Spec2Model ----
(***************************************************************************)
(* DevAgent: the agent execution engine (the LangGraph execution graph of  *)
(* agent/llm/graph.py and the AgentBrain loop of agent/main.py), the       *)
(* rate-limited / failover model clients (agent/llm/llm_wrappers.py) and   *)
(* the tool sandbox (agent/tools/fs.py, shell.py, scaffold.py and the      *)
(* deny-list of agent/llm/tools.py).                                       *)
(*                                                                         *)
(* Three state machines share this module, each with its own variables:    *)
(*   Spec / SpecBudget  the agent run (graph or AgentBrain)                *)
(*   SpecLLM            RateLimitedLLM / FailoverLLM and their structured  *)
(*                      wrappers                                           *)
(*   SpecFs             FsTool over a small filesystem                     *)
(* A machine that is not running keeps its variables at their idle value.  *)
(***************************************************************************)
EXTENDS Integers, Sequences, FiniteSets, TLC

VARIABLES
    \* ---- agent run (graph.py State, main.py AgentBrain.run locals) ----
    engine,          \* "graph" (run_graph_agent) or "brain" (AgentBrain.run)
    script,          \* the behaviour of the model and of the world in this run
    pc,              \* graph: the node about to run; brain: "loop" / "finalize"
    messages,        \* State.messages
    task,            \* State.task
    pending_action,  \* State.pending_action
    tool_result,     \* State.tool_result
    actions_taken,   \* State.actions_taken / run()'s actions_taken
    last_result,     \* State.last_result
    done,            \* State.done / run()'s done
    reason,          \* State.reason
    steps,           \* graph: supersteps executed; brain: run()'s step
    outcome,         \* "running", "success", or the exception that ended the run
    shellRuns,       \* commands handed to ShellTool.run, in order
    history,         \* AgentBrain.history
    context,         \* AgentBrain.run's context, as a sequence of lines
    request,         \* the payload of the last model call
    modelFailed,     \* a model call of this run raised
    store,           \* whether job_dir / "state.sqlite" can be opened
    checkpoint,      \* the state the checkpointer holds under the job id
    \* ---- model clients (llm_wrappers.py) ----
    now,             \* time.time()
    rpm,             \* RateLimitedLLM.rpm of each backend
    timestamps,      \* RateLimitedLLM._timestamps of each backend
    forwarded,       \* times at which a call reached each backend's _impl
    forwardedVia,    \* the entry point of each of those calls
    rejected,        \* RateLimitExceeded raised so far by each backend
    lastCall,        \* what the last invoke did and returned
    \* ---- FsTool (fs.py) ----
    fsFiles,         \* regular files: path -> text
    fsDirs,          \* directories
    fsIO,            \* filesystem accesses performed so far
    fsResult,        \* the mappings the FsTool operations returned, in order
    \* ---- work directory: ScaffoldTool (scaffold.py) and the packager ----
    wsEntries,       \* entries of the work directory: name -> kind (two
                     \* jobs: of every work directory of the host)
    wsCall,          \* the last call made on the work directory
    wsOps,           \* calls made so far
    \* ---- orchestrator (orchestrator/app.py) ----
    JOBS,            \* the in-memory job store: job id -> job record
    remote,          \* the Modal function call spawned for each job
    polled           \* the last response of status for each job

agentVars == <<engine, script, pc, messages, task, pending_action, tool_result,
               actions_taken, last_result, done, reason, steps, outcome,
               shellRuns, history, context, request, modelFailed, store,
               checkpoint>>
llmVars == <<now, rpm, timestamps, forwarded, forwardedVia, rejected, lastCall>>
fsVars == <<fsFiles, fsDirs, fsIO, fsResult>>
wsVars == <<wsEntries, wsCall, wsOps>>
orchVars == <<JOBS, remote, polled>>
vars == <<agentVars, llmVars, fsVars, wsVars, orchVars>>

\* Python's None where a mapping or an object is expected.
None == [py_none |-> TRUE]
\* Python's None where a str is expected.
NoneStr == "None"

\* No model call was made yet: every payload of a call holds at least the
\* system prompt, so the empty payload stands for "none so far".
NoRequest == <<>>

\* d.get(k) for a key that holds a str: the value, or None when absent.
GetStr(d, k) == IF k \in DOMAIN d THEN d[k] ELSE NoneStr

\* bool(d.get(k)) for a key that holds a bool.
Truthy(d, k) == k \in DOMAIN d /\ d[k] = TRUE

(***************************************************************************)
(* Paths.  A file name is a tuple of characters, a path a tuple of names;  *)
(* str(path) is the tuple of characters of its text.                       *)
(***************************************************************************)
Dot == <<".">>
DotDot == <<".", ".">>
N_job == <<"j", "o", "b">>
N_job2 == <<"j", "o", "b", "2">>
N_workdir == <<"w", "d">>
N_logs == <<"l", "g">>
N_etc == <<"e", "t", "c">>
N_a == <<"a">>
N_demo == <<"d", "e", "m", "o">>
N_passwd == <<"p", "w">>

\* A requested path: Path(text).is_absolute() and its components.
Rel(parts) == [abs |-> FALSE, parts |-> parts]
Abs(parts) == [abs |-> TRUE, parts |-> parts]

\* Path.resolve() on a filesystem without symbolic links.
RECURSIVE Normalize(_, _)
Normalize(acc, parts) ==
    IF parts = <<>> THEN acc
    ELSE LET c == Head(parts) IN
         IF c = DotDot
         THEN Normalize(IF acc = <<>> THEN acc ELSE SubSeq(acc, 1, Len(acc) - 1),
                        Tail(parts))
         ELSE IF c = Dot \/ c = <<>>
         THEN Normalize(acc, Tail(parts))
         ELSE Normalize(Append(acc, c), Tail(parts))

\* str(p) of a resolved path.
RECURSIVE JoinParts(_)
JoinParts(p) == IF p = <<>> THEN <<>> ELSE <<"/">> \o Head(p) \o JoinParts(Tail(p))
PathStr(p) == IF p = <<>> THEN <<"/">> ELSE JoinParts(p)

\* The text of a requested path, as the caller wrote it.
ReqStr(path) ==
    IF path.parts = <<>> THEN (IF path.abs THEN <<"/">> ELSE <<>>)
    ELSE IF path.abs THEN JoinParts(path.parts)
    ELSE Tail(JoinParts(path.parts))

\* str.startswith
StartsWith(s, prefix) ==
    Len(prefix) <= Len(s) /\ SubSeq(s, 1, Len(prefix)) = prefix

\* text[-n:]
TailChars(text, n) ==
    IF Len(text) <= n THEN text ELSE SubSeq(text, Len(text) - n + 1, Len(text))

\* p is d or lies below d.
IsWithin(p, d) == Len(d) <= Len(p) /\ SubSeq(p, 1, Len(d)) = d
Parent(p) == SubSeq(p, 1, Len(p) - 1)
Ancestors(p) == {SubSeq(p, 1, k) : k \in 0..(Len(p) - 1)}

(***************************************************************************)
(* FsTool (agent/tools/fs.py), as built by ToolEnv and AgentBrain:         *)
(* FsTool(work_dir, allowed_root=job_dir).                                 *)
(***************************************************************************)
JobDir == <<N_job>>
WorkDir == <<N_job, N_workdir>>
base_dir == WorkDir
allowed_root == JobDir

ReadLimit == 12000
ListLimit == 2000

\* The path _resolve computes before its check.
ResolvedPath(path) ==
    IF path.abs THEN Normalize(<<>>, path.parts)
    ELSE Normalize(<<>>, base_dir \o path.parts)

\* _resolve returns (TRUE) or raises ValueError (FALSE).
ResolveAllowed(path) ==
    StartsWith(PathStr(ResolvedPath(path)), PathStr(allowed_root))

PathViolation == "path not allowed outside allowed_root"

\* A filesystem access made by an operation whose request resolved to req.
IO(op, p, req) == [op |-> op, path |-> p, req |-> req]

\* Path.mkdir(parents=True, exist_ok=True) on d: the directories it creates,
\* or failure when a component of d is a regular file.
MkdirFails(files, d) == \E k \in 1..Len(d) : SubSeq(d, 1, k) \in DOMAIN files
MkdirCreates(dirs, d) == {SubSeq(d, 1, k) : k \in 1..Len(d)} \ dirs

\* FsTool.write: the returned mapping, the filesystem afterwards and the
\* filesystem accesses made.
FsWriteOp(files, dirs, path, content) ==
    LET full == ResolvedPath(path) IN
    IF ~ResolveAllowed(path)
    THEN [res |-> [ok |-> FALSE, error |-> PathViolation, path |-> ReqStr(path)],
          files |-> files, dirs |-> dirs, io |-> {}]
    ELSE IF MkdirFails(files, Parent(full))
    THEN [res |-> [ok |-> FALSE, error |-> "NotADirectoryError", path |-> ReqStr(path)],
          files |-> files, dirs |-> dirs, io |-> {IO("mkdir", Parent(full), full)}]
    ELSE IF full \in dirs
    THEN [res |-> [ok |-> FALSE, error |-> "IsADirectoryError", path |-> ReqStr(path)],
          files |-> files, dirs |-> dirs,
          io |-> {IO("mkdir", Parent(full), full), IO("write", full, full)}]
    ELSE [res |-> [ok |-> TRUE, path |-> PathStr(full), bytes |-> Len(content)],
          files |-> [p \in DOMAIN files \cup {full} |->
                        IF p = full THEN content ELSE files[p]],
          dirs |-> dirs \cup MkdirCreates(dirs, Parent(full)),
          io |-> {IO("mkdir", Parent(full), full), IO("write", full, full)}]

\* a read whose exception leaves the method
FsReadOpUncaught(files, dirs, path) ==
    LET full == ResolvedPath(path) IN
    IF ResolveAllowed(path) /\ full \in DOMAIN files
    THEN [res |-> [ok |-> TRUE, path |-> PathStr(full),
                   content |-> TailChars(files[full], ReadLimit)],
          files |-> files, dirs |-> dirs, io |-> {IO("read", full, full)}]
    ELSE [res |-> [raised |-> "Exception"],
          files |-> files, dirs |-> dirs, io |-> {}]

\* FsTool.read
FsReadOp(files, dirs, path) ==
    LET full == ResolvedPath(path) IN
    IF ~ResolveAllowed(path)
    THEN [res |-> [ok |-> FALSE, error |-> PathViolation, path |-> ReqStr(path)],
          files |-> files, dirs |-> dirs, io |-> {}]
    ELSE IF full \in DOMAIN files
    THEN [res |-> [ok |-> TRUE, path |-> PathStr(full),
                   content |-> TailChars(files[full], ReadLimit)],
          files |-> files, dirs |-> dirs, io |-> {IO("read", full, full)}]
    ELSE [res |-> [ok |-> FALSE,
                   error |-> IF full \in dirs THEN "IsADirectoryError"
                             ELSE "FileNotFoundError",
                   path |-> ReqStr(path)],
          files |-> files, dirs |-> dirs, io |-> {IO("read", full, full)}]

\* FsTool.list(path): path is None (or empty) or a requested path.  rglob
\* walks the target; relative_to(base_dir) raises for an entry outside
\* base_dir.  The items are reported as a set, cut to ListLimit entries.
FsListOp(files, dirs, path) ==
    IF path # None /\ ~ResolveAllowed(path)
    THEN [res |-> [ok |-> FALSE, error |-> PathViolation, path |-> ReqStr(path)],
          files |-> files, dirs |-> dirs, io |-> {}]
    ELSE LET target == IF path = None THEN base_dir ELSE ResolvedPath(path)
             found == {p \in (DOMAIN files) \cup dirs :
                          IsWithin(p, target) /\ p # target}
         IN IF \E p \in found : ~IsWithin(p, base_dir)
            THEN [res |-> [ok |-> FALSE, error |-> "ValueError",
                           path |-> IF path = None THEN Dot ELSE ReqStr(path)],
                  files |-> files, dirs |-> dirs, io |-> {IO("list", target, target)}]
            ELSE [res |-> [ok |-> TRUE, base |-> PathStr(target),
                           items |-> IF Cardinality(found) <= ListLimit
                                     THEN {SubSeq(p, Len(base_dir) + 1, Len(p)) :
                                              p \in found}
                                     ELSE {}],
                  files |-> files, dirs |-> dirs, io |-> {IO("list", target, target)}]

(***************************************************************************)
(* Shell commands.  A command is the tuple of its whitespace-separated     *)
(* words.  Each deny pattern of agent/llm/tools.py is read on the words:   *)
(* re.IGNORECASE is Lower, \b...\s+... is two adjacent words.              *)
(***************************************************************************)
Lower(w) ==
    CASE w = "RM" -> "rm"
      [] w = "-RF" -> "-rf"
      [] w = "-R" -> "-r"
      [] w = "SSH" -> "ssh"
      [] OTHER -> w

\* words in which /(etc|root)\b, if= and http are found
EtcRootWords == {"/etc/passwd", "/root", "/root/.ssh"}
DdIfWords == {"if=/dev/zero"}
HttpWords == {"http://x", "https://x"}
ForkBomb == ":(){:|:&};:"

HasPair(cmd, first, second) ==
    \E i \in 1..(Len(cmd) - 1) :
        Lower(cmd[i]) \in first /\ Lower(cmd[i + 1]) \in second
HasWord(cmd, words) == \E i \in 1..Len(cmd) : Lower(cmd[i]) \in words

\* _DENY_PATTERNS, in the order of the list
DenyPatterns(cmd) ==
    << HasPair(cmd, {"rm"}, {"-rf"}),
       HasWord(cmd, {"mkfs"}),
       HasPair(cmd, {"dd"}, DdIfWords),
       HasPair(cmd, {"chmod"}, {"777"}),
       HasPair(cmd, {"chown"}, {"-r"}),
       HasWord(cmd, {"mount"}),
       HasWord(cmd, {"ssh"}),
       HasWord(cmd, EtcRootWords),
       HasWord(cmd, {"adduser", "useradd", "deluser", "userdel"}),
       HasWord(cmd, {ForkBomb}),
       HasPair(cmd, {"curl", "wget"}, HttpWords) >>

is_risky_command(cmd) ==
    \E k \in 1..Len(DenyPatterns(cmd)) : DenyPatterns(cmd)[k]

CmdLs == <<"ls">>
CmdRm == <<"rm", "-rf", "/">>
CmdRmUpper == <<"RM", "-RF", "/">>
CmdCat == <<"cat", "/etc/passwd">>
CmdCurl == <<"npm", "install", "&&", "curl", "http://x">>

(***************************************************************************)
(* ShellTool.run (agent/tools/shell.py).  What the process does is the     *)
(* world's choice: it exits with a code, or runs into the timeout.         *)
(***************************************************************************)
OutputLimit == 8000
TimeoutExitCode == 124
BlockedExitCode == 126

ProcExit(code, out, err) ==
    [kind |-> "exit", returncode |-> code, stdout |-> out, stderr |-> err]
ProcTimeout == [kind |-> "timeout", returncode |-> 0, stdout |-> <<>>, stderr |-> <<>>]
ProcOutcomes ==
    { ProcExit(0, <<"o">>, <<>>), ProcExit(1, <<>>, <<"e">>), ProcTimeout }

\* a run that reports a timed-out process like one that exited
ShellRunNoTimeout(command, proc) ==
    [ok |-> proc.returncode = 0, command |-> command,
     exit_code |-> proc.returncode,
     stdout |-> TailChars(proc.stdout, OutputLimit),
     stderr |-> TailChars(proc.stderr, OutputLimit)]

ShellRun(command, proc) ==
    IF proc.kind = "exit"
    THEN [ok |-> proc.returncode = 0, command |-> command,
          exit_code |-> proc.returncode,
          stdout |-> TailChars(proc.stdout, OutputLimit),
          stderr |-> TailChars(proc.stderr, OutputLimit)]
    ELSE [ok |-> FALSE, command |-> command, exit_code |-> TimeoutExitCode,
          stdout |-> <<>>, stderr |-> <<"t", "i", "m", "e", "o", "u", "t">>]

(***************************************************************************)
(* The world a tool call meets: what a started process does, whether the   *)
(* work directory holds the file a, whether recipes.json loads and whether *)
(* the scaffold command leaves the project directory behind.               *)
(***************************************************************************)
Worlds ==
    [proc : ProcOutcomes, file : BOOLEAN, recipes : BOOLEAN, made : BOOLEAN]

WorldFiles(w) ==
    IF w.file THEN (WorkDir \o <<N_a>>) :> <<"t", "x", "t">> ELSE <<>>
WorldDirs == { <<>>, <<N_etc>>, JobDir, <<N_job, N_logs>>, WorkDir }

(***************************************************************************)
(* ScaffoldTool.create (agent/tools/scaffold.py).  The registry is         *)
(* scaffold/recipes.json; the system prompt names the recipe react-vite-js.*)
(***************************************************************************)
KnownRecipe == "react-vite-js"
Recipes(w) == IF w.recipes THEN {KnownRecipe} ELSE {}

DefaultName == <<"m", "y", "-", "a", "p", "p">>

UpperChars == <<"A", "B", "C", "D", "E", "F", "G", "H", "I", "J", "K", "L", "M",
                "N", "O", "P", "Q", "R", "S", "T", "U", "V", "W", "X", "Y", "Z">>
LowerChars == <<"a", "b", "c", "d", "e", "f", "g", "h", "i", "j", "k", "l", "m",
                "n", "o", "p", "q", "r", "s", "t", "u", "v", "w", "x", "y", "z">>
DigitChars == <<"0", "1", "2", "3", "4", "5", "6", "7", "8", "9">>
Range(f) == {f[i] : i \in DOMAIN f}

\* the characters the class [a-zA-Z0-9-_] matches
SlugChars == Range(UpperChars) \cup Range(LowerChars) \cup Range(DigitChars)
                \cup {"-", "_"}

\* One statement of a function body: F applied to the value x has by then.
Step(x, F(_)) == CHOOSE y \in {F(v) : v \in {x}} : TRUE

\* re.sub(r'[^a-zA-Z0-9-_]', '-', name)
RECURSIVE ReplaceUnsafe(_)
ReplaceUnsafe(name) ==
    IF name = <<>> THEN <<>>
    ELSE <<IF Head(name) \in SlugChars THEN Head(name) ELSE "-">>
            \o ReplaceUnsafe(Tail(name))

\* a sanitizer that leaves runs of hyphens alone
CollapseHyphensOff(s) == s

\* re.sub(r'-+', '-', s)
RECURSIVE CollapseHyphens(_)
CollapseHyphens(s) ==
    IF Len(s) <= 1 THEN s
    ELSE IF s[1] = "-" /\ s[2] = "-" THEN CollapseHyphens(Tail(s))
    ELSE <<s[1]>> \o CollapseHyphens(Tail(s))

\* s.strip('-')
RECURSIVE LStripHyphens(_)
LStripHyphens(s) ==
    IF s # <<>> /\ Head(s) = "-" THEN LStripHyphens(Tail(s)) ELSE s
RECURSIVE RStripHyphens(_)
RStripHyphens(s) ==
    IF s # <<>> /\ s[Len(s)] = "-" THEN RStripHyphens(SubSeq(s, 1, Len(s) - 1))
    ELSE s
StripHyphens(s) == Step(LStripHyphens(s), RStripHyphens)

\* str.lower()
LowerChar(c) ==
    IF c \in Range(UpperChars)
    THEN LowerChars[CHOOSE i \in DOMAIN UpperChars : UpperChars[i] = c]
    ELSE c
RECURSIVE LowerStr(_)
LowerStr(s) ==
    IF s = <<>> THEN <<>> ELSE <<LowerChar(Head(s))>> \o LowerStr(Tail(s))

\* sanitized or "my-app"
OrDefault(sanitized) == IF sanitized = <<>> THEN DefaultName ELSE sanitized

\* ScaffoldTool._sanitize_name
sanitize_name(name) ==
    OrDefault(Step(Step(Step(Step(name, ReplaceUnsafe), CollapseHyphens),
                        StripHyphens), LowerStr))

\* str(counter)
RECURSIVE Digits(_)
Digits(k) ==
    IF k < 10 THEN <<DigitChars[k + 1]>>
    ELSE Digits(k \div 10) \o <<DigitChars[(k % 10) + 1]>>

\* f"{base_name}-{counter}"
Suffixed(base_name, counter) == base_name \o <<"-">> \o Digits(counter)

\* a collision loop that tries the suffix -1 only
CollisionLoopOnce(base_name, name, counter, existing) ==
    IF name \in existing THEN Suffixed(base_name, 1) ELSE name

\* the while loop of _resolve_name_collision; existing holds the names for
\* which (self.cwd / name).exists()
RECURSIVE CollisionLoop(_, _, _, _)
CollisionLoop(base_name, name, counter, existing) ==
    IF name \in existing
    THEN CollisionLoop(base_name, Suffixed(base_name, counter), counter + 1,
                       existing)
    ELSE name

\* ScaffoldTool._resolve_name_collision
resolve_name_collision(name, existing) ==
    CHOOSE r \in {CollisionLoop(n, n, 1, existing) : n \in {name}} : TRUE

\* create's handling of the project name
ScaffoldName(name, existing) ==
    resolve_name_collision(
        Step(IF name = <<>> THEN DefaultName ELSE name, sanitize_name), existing)

\* recipe["command"].format(name=name)
ScaffoldCommand(recipe_id, name) == <<"npm", "create", recipe_id, name>>

\* a create that trusts the exit code
ProjectMadeUnverified(result, made) == result.ok

\* result["ok"] and project_path.exists()
ProjectMade(result, made) == result.ok /\ made

\* a create that never looks the recipe up
createUnchecked(recipes, existing, proc, made, recipe_id, name) ==
    LET project == ScaffoldName(name, existing)
        command == ScaffoldCommand(recipe_id, project)
        result == ShellRun(command, proc)
    IN [ok |-> FALSE, error |-> "Scaffold command failed",
        command |-> command, exit_code |-> result.exit_code,
        stdout |-> result.stdout, stderr |-> result.stderr]

\* ScaffoldTool.create: recipes is the registry loaded, existing the entries
\* of cwd, proc what the scaffold command does, made whether the project
\* directory exists once the command has ended.
create(recipes, existing, proc, made, recipe_id, name) ==
    LET project == ScaffoldName(name, existing)
        command == ScaffoldCommand(recipe_id, project)
        result == ShellRun(command, proc)
    IN IF recipe_id \notin recipes
       THEN [ok |-> FALSE, error |-> "Recipe not found",
             offered |-> recipe_id, available |-> recipes]
       ELSE IF ProjectMade(result, made)
       THEN [ok |-> TRUE, recipe_id |-> recipe_id, project_name |-> project,
             project_path |-> PathStr(WorkDir \o <<project>>),
             command |-> command,
             stdout |-> result.stdout, stderr |-> result.stderr,
             reason |-> "Scaffolded project successfully"]
       ELSE IF result.ok
       THEN [ok |-> FALSE, recipe_id |-> recipe_id, project_name |-> project,
             command |-> command, stdout |-> result.stdout,
             stderr |-> result.stderr,
             error |-> "scaffold command finished but project directory missing"]
       ELSE [ok |-> FALSE, error |-> "Scaffold command failed",
             command |-> command, exit_code |-> result.exit_code,
             stdout |-> result.stdout, stderr |-> result.stderr]

\* The entries of the work directory in world w.
CwdEntries(w) == IF w.file THEN {N_a} ELSE {}

ScaffoldCreate(w, recipe_id, name) ==
    create(Recipes(w), CwdEntries(w), w.proc, w.made, recipe_id, name)

\* A command handed to ShellTool.run, and the caller that handed it over.
Run(via, command) == [via |-> via, command |-> command]

\* The commands ScaffoldTool.create hands to its ShellTool.
ScaffoldRuns(w, recipe_id, name) ==
    IF recipe_id \in Recipes(w)
    THEN <<Run("ScaffoldTool.create",
               ScaffoldCommand(recipe_id, ScaffoldName(name, CwdEntries(w))))>>
    ELSE <<>>

\* dict.setdefault
SetDefault(d, k, v) == d @@ (k :> v)

(***************************************************************************)
(* make_tools (agent/llm/tools.py): the five tools the graph invokes.      *)
(***************************************************************************)
shell_tool(w, command) ==
    IF is_risky_command(command)
    THEN [ok |-> FALSE, exit_code |-> BlockedExitCode,
          stderr |-> <<"b", "l", "o", "c", "k", "e", "d">>, command |-> command]
    ELSE ShellRun(command, w.proc)

\* The commands shell_tool hands to env.shell.run.
shell_tool_runs(command) ==
    IF is_risky_command(command) THEN <<>> ELSE <<Run("shell_tool", command)>>

fs_read_tool(w, path) == FsReadOp(WorldFiles(w), WorldDirs, path).res

fs_write_tool(w, path, content) ==
    FsWriteOp(WorldFiles(w), WorldDirs, path, content).res

done_tool(r) == [done |-> TRUE, reason |-> r]

\* scaffold_tool's completion hint on the mapping create returned
DoneHint(res) ==
    IF res.ok
    THEN SetDefault(SetDefault(res, "done", TRUE), "reason", "Project scaffolded")
    ELSE res

scaffold_tool(w, recipe_id, name) == DoneHint(ScaffoldCreate(w, recipe_id, name))

(***************************************************************************)
(* Decisions.  A RouterAction is [tool, args]; args holds the fields of    *)
(* RouterArgs that are not None.                                           *)
(***************************************************************************)
Action(tool, args) == [tool |-> tool, args |-> args]

\* getattr(action.args, k, None) for a str field
ArgStr(action, k) == GetStr(action.args, k)

\* getattr(action.args, "name", None) as create reads it: None and "" are
\* both the missing name.
ArgName(action) == IF "name" \in DOMAIN action.args THEN action.args.name ELSE <<>>

ShellCommands == {CmdLs, CmdRm}
ReadPaths == {Rel(<<N_a>>), Rel(<<DotDot, DotDot, N_etc, N_passwd>>)}
WritePaths == {Rel(<<N_a>>)}
RecipeIds == {KnownRecipe, "nope"}

Decisions ==
    {Action("shell", [command |-> c]) : c \in ShellCommands}
    \cup {Action("fs_read", [path |-> p]) : p \in ReadPaths}
    \cup {Action("fs_write", [path |-> p, content |-> <<"h", "i">>]) : p \in WritePaths}
    \cup {Action("scaffold", [recipe_id |-> r, name |-> N_demo]) : r \in RecipeIds}
    \cup {Action("done", [reason |-> "finished"])}

\* Decisions that are valid RouterAction records although the field their
\* tool needs is None: a shell without command, an fs_read without path, an
\* fs_write without content, a done without reason, a scaffold without
\* recipe_id.
NullDecisions ==
    {Action("shell", [reason |-> "finished"]),
     Action("fs_read", [reason |-> "finished"]),
     Action("fs_write", [path |-> Rel(<<N_a>>)]),
     Action("done", [command |-> CmdLs]),
     Action("scaffold", [name |-> N_demo])}

\* The fields without a default in the args_schema of each tool: ShellInput,
\* FsReadInput, FsWriteInput, DoneInput, ScaffoldInput.
RequiredInput ==
    [shell |-> {"command"}, fs_read |-> {"path"},
     fs_write |-> {"path", "content"}, done |-> {"reason"},
     scaffold |-> {"recipe_id"}]

\* tool.invoke validates its input against args_schema: a str field that
\* is None fails the validation.
ValidInput(action) == RequiredInput[action.tool] \subseteq DOMAIN action.args

\* _safe_json_fragment / _safe_json: the JSON text of d
JsonFragment(d) == [json |-> d]

SYSTEM_TEXT == [text |-> "You are a precise coding agent."]
TaskText == "Build me a todo app in React"
Msg(role, content) == [role |-> role, content |-> content]

\* state.tool_result or {}
EmptyDict == [k \in {} |-> TRUE]
OrEmpty(r) == IF r = None THEN EmptyDict ELSE r

(***************************************************************************)
(* The run's script: a free model may emit any decision and meet any       *)
(* world, for at most MaxCycles cycles; a stubborn model emits the same    *)
(* decision and meets the same world in every cycle, for as long as the    *)
(* engine lets it.  A stubborn model may also be one whose every reply     *)
(* carries no decision (d = None).                                         *)
(***************************************************************************)
MaxCycles == 2

Free == [mode |-> "free"]
Stubborn(d, w) == [mode |-> "stubborn", d |-> d, w |-> w]
StubbornScripts ==
    {Stubborn(d, w) : d \in Decisions \cup NullDecisions \cup {None}, w \in Worlds}

\* The decisions the model may emit at this point of the run.
ModelEmits ==
    IF script.mode = "free"
    THEN IF Len(actions_taken) < MaxCycles
         THEN IF engine = "graph" THEN Decisions \cup NullDecisions ELSE Decisions
         ELSE {}
    ELSE {script.d} \ {None}

\* The worlds a tool call may meet at this point of the run.
WorldNow == IF script.mode = "free" THEN Worlds ELSE {script.w}

(***************************************************************************)
(* The execution graph (agent/llm/graph.py, build_graph and                *)
(* run_graph_agent).  One action is one superstep of the compiled graph:   *)
(* the node at pc runs, its delta is merged into the state and the edges   *)
(* choose the next node.                                                   *)
(***************************************************************************)
RecursionLimit == 40

\* route: the key the branch after decide_action returns
route(action) == IF action = None THEN "decide_action" ELSE action.tool

\* a path map that sends shell decisions to the fs_read node
PathMapCrossed ==
    [shell |-> "run_fs_read", fs_read |-> "run_shell",
     fs_write |-> "run_fs_write", done |-> "finish_done",
     scaffold |-> "run_scaffold"]

\* the path map of add_conditional_edges("decide_action", route, {...})
PathMap ==
    [shell |-> "run_shell", fs_read |-> "run_fs_read",
     fs_write |-> "run_fs_write", done |-> "finish_done",
     scaffold |-> "run_scaffold"]

\* a completion check that always loops back
ShouldEndNever(d) == "decide_action"

\* _should_end and its path map
should_end(d) == IF d THEN "END" ELSE "decide_action"

\* What _make_checkpointer meets in this run: the store opens; or it
\* cannot be opened and the fallback constructor SqliteSaver(str(db_path))
\* raises as well ("fails"); or it cannot be opened and the fallback
\* constructor accepts the path text in place of a connection
\* ("fails_unchecked").
StoreStates == {"opens", "fails", "fails_unchecked"}
Saver == [saver |-> "SqliteSaver", conn |-> "connection"]
PathSaver == [saver |-> "SqliteSaver", conn |-> "str(db_path)"]

\* _make_checkpointer
make_checkpointer(st) ==
    CASE st = "opens" -> Saver
      [] st = "fails" -> None
      [] st = "fails_unchecked" -> PathSaver

\* app.invoke starts by reading the thread's checkpoint when the graph was
\* compiled with a saver, and with the first node otherwise.
EntryPoint(checkpointer) ==
    IF checkpointer = PathSaver THEN "load_checkpoint" ELSE "decide_action"

\* The values of the state's channels.
Snapshot ==
    [messages |-> messages, actions_taken |-> actions_taken,
     last_result |-> last_result, tool_result |-> tool_result, done |-> done,
     reason |-> reason, task |-> task, pending_action |-> pending_action]

\* A graph compiled with a saver stores the state under the thread id at
\* the end of every superstep; one compiled without stores nothing.
Checkpointed ==
    checkpoint' = IF make_checkpointer(store) = Saver
                  THEN [thread_id |-> "job", values |-> Snapshot', next |-> pc']
                  ELSE None

GraphInit ==
    /\ engine = "graph"
    /\ store \in StoreStates
    /\ pc = EntryPoint(make_checkpointer(store))
    /\ messages = <<Msg("system", SYSTEM_TEXT), Msg("user", [text |-> TaskText])>>
    /\ task = TaskText
    /\ pending_action = None
    /\ tool_result = None
    /\ actions_taken = <<>>
    /\ last_result = None
    /\ done = FALSE
    /\ reason = NoneStr
    /\ steps = 0
    /\ checkpoint = None
    /\ outcome = "running"
    /\ shellRuns = <<>>
    /\ history = <<>>
    /\ context = <<>>
    /\ request = NoRequest
    /\ modelFailed = FALSE

\* decide_action's prompt: the system text, then the task as the one human
\* (user) message; state.messages is not read.
DecideRequest(t, msgs) == <<Msg("system", SYSTEM_TEXT), Msg("user", [text |-> t])>>

\* a graph compiled without a recursion limit
WithinLimitOff(n) == TRUE

\* config recursion_limit: another superstep may run after n of them.
WithinLimit(n) == n < RecursionLimit

\* The graph runs the node at pc as its next superstep.
Superstep(node) ==
    /\ engine = "graph"
    /\ outcome = "running"
    /\ pc = node
    /\ WithinLimit(steps)
    /\ steps' = steps + 1
    /\ UNCHANGED <<engine, script, task, outcome, history, context, modelFailed,
                   store>>
    /\ UNCHANGED <<llmVars, fsVars, wsVars, orchVars>>

decide_action ==
    /\ Superstep("decide_action")
    /\ request' = DecideRequest(task, messages)
    /\ \E action \in ModelEmits :
          /\ pending_action' = action
          /\ route(action) \in DOMAIN PathMap
          /\ pc' = PathMap[route(action)]
    /\ UNCHANGED <<messages, tool_result, actions_taken, last_result, done,
                   reason, shellRuns>>
    /\ Checkpointed

\* chain.invoke raises: the exception leaves app.invoke and run_graph_agent.
decide_action_raises ==
    /\ engine = "graph"
    /\ outcome = "running"
    /\ pc = "decide_action"
    /\ WithinLimit(steps)
    /\ request' = DecideRequest(task, messages)
    /\ modelFailed' = TRUE
    /\ outcome' = "ModelError"
    /\ UNCHANGED <<engine, script, pc, messages, task, pending_action,
                   tool_result, actions_taken, last_result, done, reason,
                   steps, shellRuns, history, context>>
    /\ UNCHANGED <<store, checkpoint>>
    /\ UNCHANGED <<llmVars, fsVars, wsVars, orchVars>>

\* The structured output holds no decision: decide_action returns
\* pending_action None, route returns "decide_action", and the branch finds
\* no such key in its path map: KeyError leaves app.invoke.
decide_action_no_decision ==
    /\ engine = "graph"
    /\ outcome = "running"
    /\ pc = "decide_action"
    /\ WithinLimit(steps)
    /\ IF script.mode = "free" THEN TRUE ELSE script.d = None
    /\ route(None) \notin DOMAIN PathMap
    /\ request' = DecideRequest(task, messages)
    /\ pending_action' = None
    /\ outcome' = "KeyError"
    /\ UNCHANGED <<engine, script, pc, messages, task, tool_result,
                   actions_taken, last_result, done, reason, steps, shellRuns,
                   history, context, modelFailed>>
    /\ UNCHANGED <<store, checkpoint>>
    /\ UNCHANGED <<llmVars, fsVars, wsVars, orchVars>>

\* A tool node: res is the mapping its tool returned, runs the commands the
\* tool handed to ShellTool.run.
ToolNode(node, tool, res, runs) ==
    /\ Superstep(node)
    /\ pending_action # None /\ pending_action.tool = tool
    /\ ValidInput(pending_action)
    /\ tool_result' = res
    /\ shellRuns' = shellRuns \o runs
    /\ pc' = "record_result"
    /\ UNCHANGED <<messages, pending_action, actions_taken, last_result, done,
                   reason, request>>
    /\ Checkpointed

\* A tool node whose tool.invoke rejects the input: the ValidationError
\* leaves the node, app.invoke and run_graph_agent.
tool_input_invalid ==
    /\ engine = "graph"
    /\ outcome = "running"
    /\ \E tool \in DOMAIN PathMap :
          pc = PathMap[tool] /\ pending_action # None /\ pending_action.tool = tool
    /\ WithinLimit(steps)
    /\ ~ValidInput(pending_action)
    /\ outcome' = "ValidationError"
    /\ UNCHANGED <<engine, script, pc, messages, task, pending_action,
                   tool_result, actions_taken, last_result, done, reason,
                   steps, shellRuns, history, context, request, modelFailed>>
    /\ UNCHANGED <<store, checkpoint>>
    /\ UNCHANGED <<llmVars, fsVars, wsVars, orchVars>>

run_shell ==
    \E w \in WorldNow :
        ToolNode("run_shell", "shell",
                 shell_tool(w, pending_action.args.command),
                 shell_tool_runs(pending_action.args.command))

run_fs_read ==
    \E w \in WorldNow :
        ToolNode("run_fs_read", "fs_read",
                 fs_read_tool(w, pending_action.args.path), <<>>)

run_fs_write ==
    \E w \in WorldNow :
        ToolNode("run_fs_write", "fs_write",
                 fs_write_tool(w, pending_action.args.path,
                               pending_action.args.content), <<>>)

finish_done ==
    ToolNode("finish_done", "done", done_tool(ArgStr(pending_action, "reason")),
             <<>>)

run_scaffold ==
    \E w \in WorldNow :
        ToolNode("run_scaffold", "scaffold",
                 scaffold_tool(w, pending_action.args.recipe_id,
                               ArgName(pending_action)),
                 ScaffoldRuns(w, pending_action.args.recipe_id,
                              ArgName(pending_action)))

\* record_result that also ends the run on a failed result
MarksDoneOnFailure(action, result) ==
    action.tool = "done" \/ Truthy(result, "done") \/ ~Truthy(result, "ok")

\* action.tool == "done" or bool(result.get("done"))
MarksDone(action, result) == action.tool = "done" \/ Truthy(result, "done")

\* record_result that appends the result only
NewMessagesToolOnly(msgs, action_json, result) ==
    msgs \o <<Msg("tool", JsonFragment(result))>>

\* record_result that puts the newest decision first
NewActionsTakenPrepended(taken, action_json) == <<action_json>> \o taken

\* [*state.actions_taken, action_json]
NewActionsTaken(taken, action_json) == Append(taken, action_json)

\* record_result that leaves the decision in its carrier
RecordedPendingKept(action) == action

\* new_state["pending_action"]
RecordedPending(action) == None

\* record_result that records no reason with the done flag
RecordedReasonNone(result) == NoneStr

\* result.get("reason")
RecordedReason(result) == GetStr(result, "reason")

\* record_result that keeps the system entry and the newest cycle only
NewMessagesTrimmed(msgs, action_json, result) ==
    <<Head(msgs)>> \o <<Msg("assistant", action_json),
                        Msg("tool", JsonFragment(result))>>

\* record_result's messages: the decision, then the result
NewMessages(msgs, action_json, result) ==
    msgs \o <<Msg("assistant", action_json), Msg("tool", JsonFragment(result))>>

record_result ==
    /\ Superstep("record_result")
    /\ pending_action # None
    /\ LET action == pending_action
           result == OrEmpty(tool_result)
           action_json == JsonFragment(action)
       IN /\ messages' = NewMessages(messages, action_json, result)
          /\ actions_taken' = NewActionsTaken(actions_taken, action_json)
          /\ last_result' = result
          /\ pending_action' = RecordedPending(action)
          /\ tool_result' = None
          /\ IF MarksDone(action, result)
             THEN done' = TRUE /\ reason' = RecordedReason(result)
             ELSE UNCHANGED <<done, reason>>
    /\ pc' = "maybe_interrupt"
    /\ UNCHANGED <<shellRuns, request>>
    /\ Checkpointed

\* maybe_interrupt that returns a fresh done flag
InterruptDoneReset(d) == FALSE

\* maybe_interrupt returns {}: merged into the state, done keeps its value.
InterruptDone(d) == d

maybe_interrupt ==
    /\ Superstep("maybe_interrupt")
    /\ done' = InterruptDone(done)
    /\ pc' = should_end(done')
    /\ UNCHANGED <<messages, pending_action, tool_result, actions_taken,
                   last_result, reason, shellRuns, request>>
    /\ Checkpointed

\* recursion_limit supersteps have run and the graph has not reached END:
\* app.invoke raises GraphRecursionError.
recursion_limit_reached ==
    /\ engine = "graph"
    /\ outcome = "running"
    /\ pc # "END"
    /\ ~WithinLimit(steps)
    /\ outcome' = "GraphRecursionError"
    /\ UNCHANGED <<engine, script, pc, messages, task, pending_action,
                   tool_result, actions_taken, last_result, done, reason,
                   steps, shellRuns, history, context, request, modelFailed>>
    /\ UNCHANGED <<store, checkpoint>>
    /\ UNCHANGED <<llmVars, fsVars, wsVars, orchVars>>

\* app.invoke returned: run_graph_agent writes the report, packages the
\* outputs and returns success.
run_graph_agent_returns ==
    /\ engine = "graph"
    /\ outcome = "running"
    /\ pc = "END"
    /\ outcome' = "success"
    /\ UNCHANGED <<engine, script, pc, messages, task, pending_action,
                   tool_result, actions_taken, last_result, done, reason,
                   steps, shellRuns, history, context, request, modelFailed>>
    /\ UNCHANGED <<store, checkpoint>>
    /\ UNCHANGED <<llmVars, fsVars, wsVars, orchVars>>

\* The saver holds the path text where it needs a connection: its first
\* use raises out of app.invoke, before any node has run.
load_checkpoint_raises ==
    /\ engine = "graph"
    /\ outcome = "running"
    /\ pc = "load_checkpoint"
    /\ outcome' = "AttributeError"
    /\ UNCHANGED <<engine, script, pc, messages, task, pending_action,
                   tool_result, actions_taken, last_result, done, reason,
                   steps, shellRuns, history, context, request, modelFailed>>
    /\ UNCHANGED <<store, checkpoint>>
    /\ UNCHANGED <<llmVars, fsVars, wsVars, orchVars>>

\* The process that runs the graph dies; what the saver stored stays.
crash ==
    /\ engine = "graph"
    /\ outcome = "running"
    /\ outcome' = "crashed"
    /\ UNCHANGED <<engine, script, pc, messages, task, pending_action,
                   tool_result, actions_taken, last_result, done, reason,
                   steps, shellRuns, history, context, request, modelFailed>>
    /\ UNCHANGED <<store, checkpoint>>
    /\ UNCHANGED <<llmVars, fsVars, wsVars, orchVars>>

\* resume_graph_agent(run_id, thread_id) for the job of the dead run: it
\* returns {"ok": False, "error": "resume not implemented in this build"}
\* and starts nothing.
resume_graph_agent ==
    /\ engine = "graph"
    /\ outcome = "crashed"
    /\ outcome' = "resume not implemented in this build"
    /\ UNCHANGED <<engine, script, pc, messages, task, pending_action,
                   tool_result, actions_taken, last_result, done, reason,
                   steps, shellRuns, history, context, request, modelFailed>>
    /\ UNCHANGED <<store, checkpoint>>
    /\ UNCHANGED <<llmVars, fsVars, wsVars, orchVars>>

(***************************************************************************)
(* AgentBrain.run (agent/main.py), with a model configured.  One action    *)
(* is one iteration of the while loop.                                     *)
(***************************************************************************)
MaxSteps == 20

\* _ask_llm when generate_content or json.loads raises
LLMErrorAction == Action("done", [reason |-> "LLM error"])

\* The mapping the loop body binds to result.
BrainResult(w, action) ==
    CASE action.tool = "shell" -> ShellRun(action.args.command, w.proc)
      [] action.tool = "fs_write" ->
            FsWriteOp(WorldFiles(w), WorldDirs, action.args.path,
                      action.args.content).res
      [] action.tool = "fs_read" ->
            FsReadOp(WorldFiles(w), WorldDirs, action.args.path).res
      [] action.tool = "done" ->
            [ok |-> TRUE, done |-> TRUE, reason |-> GetStr(action.args, "reason")]
      [] OTHER -> [ok |-> FALSE, error |-> "unknown tool", tool |-> action.tool]

\* The commands the loop body hands to self.shell.run.
BrainRuns(action) ==
    IF action.tool = "shell"
    THEN <<Run("AgentBrain.run", action.args.command)>>
    ELSE <<>>

\* result.get("exit_code") not in (0, None), for a shell result
ShellFailed(action, result) ==
    action.tool = "shell" /\ "exit_code" \in DOMAIN result /\ result.exit_code # 0

BrainInit ==
    /\ engine = "brain"
    /\ IF script.mode = "stubborn" THEN script.d \notin NullDecisions ELSE TRUE
    /\ pc = "loop"
    /\ messages = <<>>
    /\ task = TaskText
    /\ pending_action = None
    /\ tool_result = None
    /\ actions_taken = <<>>
    /\ last_result = None
    /\ done = FALSE
    /\ reason = NoneStr
    /\ steps = 0
    /\ outcome = "running"
    /\ shellRuns = <<>>
    /\ history = <<>>
    /\ context = <<[text |-> "SYSTEM_PROMPT"], [text |-> TaskText]>>
    /\ request = NoRequest
    /\ modelFailed = FALSE
    /\ store = "unused"
    /\ checkpoint = None

BrainIteration(action, w) ==
    LET result == BrainResult(w, action) IN
    /\ steps' = steps + 1
    /\ request' = context
    /\ actions_taken' = Append(actions_taken, JsonFragment(action))
    /\ done' = IF action.tool = "done" THEN TRUE ELSE done
    /\ shellRuns' = shellRuns \o BrainRuns(action)
    /\ history' = Append(history,
                         [step |-> steps + 1, action |-> action, result |-> result])
    /\ context' = context \o <<[tool_result |-> JsonFragment(result)]>>
                     \o (IF ShellFailed(action, result)
                         THEN <<[error |-> result.exit_code]>> ELSE <<>>)

\* while not done and step < self.cfg.max_steps
LoopContinues(d, n) == ~d /\ n < MaxSteps

\* An iteration in which _ask_llm returns the model's decision.
brain_step ==
    /\ engine = "brain"
    /\ pc = "loop"
    /\ LoopContinues(done, steps)
    /\ \E action \in ModelEmits, w \in WorldNow : BrainIteration(action, w)
    /\ UNCHANGED <<engine, script, pc, messages, task, pending_action,
                   tool_result, last_result, reason, outcome, modelFailed>>
    /\ UNCHANGED <<store, checkpoint>>
    /\ UNCHANGED <<llmVars, fsVars, wsVars, orchVars>>

\* An iteration in which generate_content or json.loads raises inside
\* _ask_llm, which answers with its own decision.
brain_step_llm_error ==
    /\ engine = "brain"
    /\ pc = "loop"
    /\ LoopContinues(done, steps)
    /\ \E w \in WorldNow : BrainIteration(LLMErrorAction, w)
    /\ modelFailed' = TRUE
    /\ UNCHANGED <<engine, script, pc, messages, task, pending_action,
                   tool_result, last_result, reason, outcome>>
    /\ UNCHANGED <<store, checkpoint>>
    /\ UNCHANGED <<llmVars, fsVars, wsVars, orchVars>>

(***************************************************************************)
(* AgentBrain.run without a model: _ensure_llm leaves self._llm None and   *)
(* _ask_llm answers with _fallback_plan, which reads the work directory.   *)
(* The directory is fsDirs and fsFiles; a command leaves behind what it    *)
(* managed to make and removes nothing.                                    *)
(***************************************************************************)
MaxPlanSteps == 5

Fallback == [mode |-> "fallback"]

N_todo_app == <<"t", "o", "d", "o", "-", "a", "p", "p">>
N_package_json == <<"p", "a", "c", "k", "a", "g", "e", ".", "j", "s", "o", "n">>
N_node_modules == <<"n", "o", "d", "e", "_", "m", "o", "d", "u", "l", "e", "s">>
N_dist == <<"d", "i", "s", "t">>
AppDir == WorkDir \o <<N_todo_app>>

CmdCreate ==
    <<"npm", "create", "vite@latest", "todo-app", "--", "--template", "react">>
CmdCreateWithVite ==
    <<"npm", "install", "-g", "create-vite", "&&">> \o CmdCreate
CmdInstall == <<"cd", "todo-app", "&&", "npm", "install">>
CmdBuild == <<"cd", "todo-app", "&&", "npm", "run", "build">>

\* needle in text
Contains(text, needle) ==
    \E i \in 1..(Len(text) - Len(needle) + 1) :
        SubSeq(text, i, i + Len(needle) - 1) = needle

NotFoundNeedles ==
    { <<"v", "i", "t", "e", ":", " ", "n", "o", "t", " ", "f", "o", "u", "n", "d">>,
      <<"c", "r", "e", "a", "t", "e", "-", "v", "i", "t", "e", ":", " ", "n", "o", "t", " ", "f", "o", "u", "n", "d">>,
      <<"c", "o", "m", "m", "a", "n", "d", " ", "n", "o", "t", " ", "f", "o", "u", "n", "d">> }

\* What a started command does: it exits with 0, the shell does not find
\* the program, or it runs into the timeout.
PlanProcs ==
    { ProcExit(0, <<"o">>, <<>>),
      ProcExit(127, <<>>, <<"s", "h", ":", " ", "v", "i", "t", "e", ":", " ", "n", "o", "t", " ", "f", "o", "u", "n", "d">>),
      ProcTimeout }

\* The previous attempt was a shell command that failed because a program
\* was missing.
LastFailedNotFound(hist) ==
    /\ hist # <<>>
    /\ LET last == hist[Len(hist)] IN
       /\ last.action.tool = "shell"
       /\ ~last.result.ok
       /\ \E needle \in NotFoundNeedles : Contains(last.result.stderr, needle)

\* a plan that builds before it installs
fallback_plan_build_first(dirs, files, hist) ==
    IF AppDir \notin dirs
    THEN IF LastFailedNotFound(hist)
         THEN Action("shell", [command |-> CmdCreateWithVite])
         ELSE Action("shell", [command |-> CmdCreate])
    ELSE IF (AppDir \o <<N_package_json>>) \in DOMAIN files
            /\ (AppDir \o <<N_dist>>) \notin dirs
    THEN Action("shell", [command |-> CmdBuild])
    ELSE IF (AppDir \o <<N_package_json>>) \in DOMAIN files
            /\ (AppDir \o <<N_node_modules>>) \notin dirs
    THEN Action("shell", [command |-> CmdInstall])
    ELSE Action("done", [reason |-> "fallback plan completed"])

\* _fallback_plan: dirs and files are the directories and the files that
\* exist, hist is self.history.
fallback_plan(dirs, files, hist) ==
    IF AppDir \notin dirs
    THEN IF LastFailedNotFound(hist)
         THEN Action("shell", [command |-> CmdCreateWithVite])
         ELSE Action("shell", [command |-> CmdCreate])
    ELSE IF (AppDir \o <<N_package_json>>) \in DOMAIN files
            /\ (AppDir \o <<N_node_modules>>) \notin dirs
    THEN Action("shell", [command |-> CmdInstall])
    ELSE IF (AppDir \o <<N_package_json>>) \in DOMAIN files
            /\ (AppDir \o <<N_dist>>) \notin dirs
    THEN Action("shell", [command |-> CmdBuild])
    ELSE Action("done", [reason |-> "fallback plan completed"])

\* What the command of a decision may leave in the work directory: the
\* directories and the files it adds.
PlanEffects(action) ==
    IF action.tool # "shell" THEN {[dirs |-> {}, files |-> EmptyDict]}
    ELSE IF action.args.command \in {CmdCreate, CmdCreateWithVite}
    THEN {[dirs |-> {}, files |-> EmptyDict],
          [dirs |-> {AppDir}, files |-> EmptyDict],
          [dirs |-> {AppDir},
           files |-> (AppDir \o <<N_package_json>>) :> <<"{", "}">>]}
    ELSE IF action.args.command = CmdInstall
    THEN {[dirs |-> {}, files |-> EmptyDict],
          [dirs |-> {AppDir \o <<N_node_modules>>}, files |-> EmptyDict]}
    ELSE {[dirs |-> {}, files |-> EmptyDict],
          [dirs |-> {AppDir \o <<N_dist>>}, files |-> EmptyDict]}

\* The work directory at the start of a run: empty, or with what an
\* earlier run left of the project.
PlanDirs ==
    {{JobDir, WorkDir} \cup made :
        made \in {{}} \cup {{AppDir} \cup sub :
                      sub \in SUBSET {AppDir \o <<N_node_modules>>,
                                      AppDir \o <<N_dist>>}}}

PlanInit ==
    /\ script = Fallback
    /\ fsDirs \in PlanDirs
    /\ fsFiles \in IF AppDir \in fsDirs
                    THEN {EmptyDict, (AppDir \o <<N_package_json>>) :> <<"{", "}">>}
                    ELSE {EmptyDict}
    /\ fsIO = {}
    /\ fsResult = <<>>

\* An iteration in which _ask_llm answers with _fallback_plan.
brain_step_fallback ==
    /\ engine = "brain"
    /\ script = Fallback
    /\ pc = "loop"
    /\ LoopContinues(done, steps)
    /\ steps < MaxPlanSteps
    /\ \E proc \in PlanProcs :
          LET action == fallback_plan(fsDirs, fsFiles, history) IN
          /\ BrainIteration(action, [proc |-> proc])
          /\ \E made \in PlanEffects(action) :
                /\ fsDirs' = fsDirs \cup made.dirs
                /\ fsFiles' = made.files @@ fsFiles
    /\ UNCHANGED <<engine, script, pc, messages, task, pending_action,
                   tool_result, last_result, reason, outcome, modelFailed>>
    /\ UNCHANGED <<store, checkpoint>>
    /\ UNCHANGED <<fsIO, fsResult>>
    /\ UNCHANGED <<llmVars, wsVars, orchVars>>

\* The loop is left; _finalize writes the report, packages and returns.
brain_finalize ==
    /\ engine = "brain"
    /\ pc = "loop"
    /\ ~LoopContinues(done, steps)
    /\ pc' = "finalized"
    /\ outcome' = "success"
    /\ UNCHANGED <<engine, script, messages, task, pending_action, tool_result,
                   actions_taken, last_result, done, reason, steps, shellRuns,
                   history, context, request, modelFailed>>
    /\ UNCHANGED <<store, checkpoint>>
    /\ UNCHANGED <<llmVars, fsVars, wsVars, orchVars>>

Scripts == {Free} \cup StubbornScripts

AgentNext ==
    \/ decide_action
    \/ decide_action_raises
    \/ decide_action_no_decision
    \/ tool_input_invalid
    \/ run_shell
    \/ run_fs_read
    \/ run_fs_write
    \/ finish_done
    \/ run_scaffold
    \/ record_result
    \/ maybe_interrupt
    \/ recursion_limit_reached
    \/ run_graph_agent_returns
    \/ load_checkpoint_raises
    \/ brain_step
    \/ brain_step_llm_error
    \/ brain_finalize

(***************************************************************************)
(* Model clients (agent/llm/llm_wrappers.py).  A backend list is a tuple   *)
(* of RateLimitedLLM objects; backend i has ceiling rpm[i] and the deque   *)
(* timestamps[i].                                                          *)
(***************************************************************************)
Window == 60

\* an eviction loop that also drops a timestamp exactly 60 seconds old
RECURSIVE EvictAtSixty(_, _)
EvictAtSixty(ts, t) ==
    IF ts # <<>> /\ t - Head(ts) >= Window THEN EvictAtSixty(Tail(ts), t) ELSE ts

\* while self._timestamps and now - self._timestamps[0] > 60: popleft()
RECURSIVE Evict(_, _)
Evict(ts, t) ==
    IF ts # <<>> /\ t - Head(ts) > Window THEN Evict(Tail(ts), t) ELSE ts

\* an invoke that records the timestamp before it checks the ceiling
RLInvokeRecordsFirst(ts, limit, t) ==
    LET kept == Evict(ts, t) IN
    IF Len(kept) >= limit
    THEN [admitted |-> FALSE, ts |-> Append(kept, t)]
    ELSE [admitted |-> TRUE, ts |-> Append(kept, t)]

\* an invoke that admits a call without recording its timestamp
RLInvokeUnrecorded(ts, limit, t) ==
    LET kept == Evict(ts, t) IN
    IF Len(kept) >= limit
    THEN [admitted |-> FALSE, ts |-> kept]
    ELSE [admitted |-> TRUE, ts |-> kept]

\* RateLimitedLLM.invoke up to the call of self._impl.invoke: whether the
\* call is admitted (else RateLimitExceeded is raised) and the deque after.
RLInvoke(ts, limit, t) ==
    LET kept == Evict(ts, t) IN
    IF Len(kept) >= limit
    THEN [admitted |-> FALSE, ts |-> kept]
    ELSE [admitted |-> TRUE, ts |-> Append(kept, t)]

\* a structured wrapper that keeps a deque of its own, never filled
SRLInvokeOwnWindow(ts, limit, t) == [admitted |-> TRUE, ts |-> ts]

\* StructuredRateLimitedWrapper.invoke, on the deque of its RateLimitedLLM.
SRLInvoke(ts, limit, t) ==
    LET kept == Evict(ts, t) IN
    IF Len(kept) >= limit
    THEN [admitted |-> FALSE, ts |-> kept]
    ELSE [admitted |-> TRUE, ts |-> Append(kept, t)]

\* What an invoke returned or raised.  served: the backend whose _impl was
\* called (0: none); raisedBy: the backend whose exception reached the
\* caller (0: none, or the wrapper's own RuntimeError); tried: how many
\* backends were invoked.
CallResult(tss, served, result, raisedBy, tried) ==
    [ts |-> tss, served |-> served, result |-> result,
     raisedBy |-> raisedBy, tried |-> tried]

\* a failover loop that gives up at the first rate-limited backend
FailoverLoopNoFailover(i, tss, limits, last_exc, t, impl) ==
    IF i > Len(tss)
    THEN CallResult(tss, 0, "RuntimeError", 0, i - 1)
    ELSE LET r == RLInvoke(tss[i], limits[i], t)
             tss2 == [tss EXCEPT ![i] = r.ts]
         IN IF r.admitted
            THEN IF impl = "ok"
                 THEN CallResult(tss2, i, "ok", 0, i)
                 ELSE CallResult(tss2, i, "BackendError", i, i)
            ELSE CallResult(tss2, 0, "RateLimitExceeded", i, i)

\* a failover loop whose except clause catches every exception
RECURSIVE FailoverLoopCatchAll(_, _, _, _, _, _)
FailoverLoopCatchAll(i, tss, limits, last_exc, t, impl) ==
    IF i > Len(tss)
    THEN IF last_exc # 0
         THEN CallResult(tss, 0, "RateLimitExceeded", last_exc, i - 1)
         ELSE CallResult(tss, 0, "RuntimeError", 0, i - 1)
    ELSE LET r == RLInvoke(tss[i], limits[i], t)
             tss2 == [tss EXCEPT ![i] = r.ts]
         IN IF r.admitted /\ impl = "ok"
            THEN CallResult(tss2, i, "ok", 0, i)
            ELSE FailoverLoopCatchAll(i + 1, tss2, limits, i, t, impl)

\* a failover loop that keeps the first rate-limit error, not the last
RECURSIVE FailoverLoopFirstExc(_, _, _, _, _, _)
FailoverLoopFirstExc(i, tss, limits, last_exc, t, impl) ==
    IF i > Len(tss)
    THEN IF last_exc # 0
         THEN CallResult(tss, 0, "RateLimitExceeded", last_exc, i - 1)
         ELSE CallResult(tss, 0, "RuntimeError", 0, i - 1)
    ELSE LET r == RLInvoke(tss[i], limits[i], t)
             tss2 == [tss EXCEPT ![i] = r.ts]
         IN IF r.admitted
            THEN IF impl = "ok"
                 THEN CallResult(tss2, i, "ok", 0, i)
                 ELSE CallResult(tss2, i, "BackendError", i, i)
            ELSE FailoverLoopFirstExc(i + 1, tss2, limits,
                                      IF last_exc = 0 THEN i ELSE last_exc,
                                      t, impl)

\* FailoverLLM.invoke from backend i on; last_exc is the backend that raised
\* the RateLimitExceeded held in last_exc (0: None); impl is what the
\* backend's _impl.invoke does if it is reached.
RECURSIVE FailoverLoop(_, _, _, _, _, _)
FailoverLoop(i, tss, limits, last_exc, t, impl) ==
    IF i > Len(tss)
    THEN IF last_exc # 0
         THEN CallResult(tss, 0, "RateLimitExceeded", last_exc, i - 1)
         ELSE CallResult(tss, 0, "RuntimeError", 0, i - 1)
    ELSE LET r == RLInvoke(tss[i], limits[i], t)
             tss2 == [tss EXCEPT ![i] = r.ts]
         IN IF r.admitted
            THEN IF impl = "ok"
                 THEN CallResult(tss2, i, "ok", 0, i)
                 ELSE CallResult(tss2, i, "BackendError", i, i)
            ELSE FailoverLoop(i + 1, tss2, limits, i, t, impl)

\* a structured failover loop that tries the first backend only
StructuredFailoverLoopFirstOnly(i, tss, limits, last_exc, t, impl) ==
    IF i > Len(tss)
    THEN CallResult(tss, 0, "RuntimeError", 0, i - 1)
    ELSE LET r == SRLInvoke(tss[i], limits[i], t)
             tss2 == [tss EXCEPT ![i] = r.ts]
         IN IF r.admitted
            THEN IF impl = "ok"
                 THEN CallResult(tss2, i, "ok", 0, i)
                 ELSE CallResult(tss2, i, "BackendError", i, i)
            ELSE CallResult(tss2, 0, "RateLimitExceeded", i, i)

\* StructuredFailoverWrapper.invoke over structured_backends, the structured
\* wrapper of every backend (each RateLimitedLLM has with_structured_output).
RECURSIVE StructuredFailoverLoop(_, _, _, _, _, _)
StructuredFailoverLoop(i, tss, limits, last_exc, t, impl) ==
    IF i > Len(tss)
    THEN IF last_exc # 0
         THEN CallResult(tss, 0, "RateLimitExceeded", last_exc, i - 1)
         ELSE CallResult(tss, 0, "RuntimeError", 0, i - 1)
    ELSE LET r == SRLInvoke(tss[i], limits[i], t)
             tss2 == [tss EXCEPT ![i] = r.ts]
         IN IF r.admitted
            THEN IF impl = "ok"
                 THEN CallResult(tss2, i, "ok", 0, i)
                 ELSE CallResult(tss2, i, "BackendError", i, i)
            ELSE StructuredFailoverLoop(i + 1, tss2, limits, i, t, impl)

(***************************************************************************)
(* The model-client machine: time passes and callers invoke a backend      *)
(* directly or through the failover chain.                                 *)
(***************************************************************************)
MaxBackends == 2
MaxCalls == 3
MaxTime == 62
RpmChoices == {1, 2}
TickSteps == {30, 31}
ImplOutcomes == {"ok", "error"}

BackendLists ==
    UNION {[1..n -> RpmChoices] : n \in 0..MaxBackends}

Backends == 1..Len(rpm)

LLMInit ==
    /\ now = 0
    /\ rpm \in BackendLists
    /\ timestamps = [i \in Backends |-> <<>>]
    /\ forwarded = [i \in Backends |-> <<>>]
    /\ forwardedVia = [i \in Backends |-> <<>>]
    /\ rejected = [i \in Backends |-> 0]
    /\ lastCall = [seq |-> 0]

LLMIdle ==
    /\ now = 0
    /\ rpm = <<>>
    /\ timestamps = <<>>
    /\ forwarded = <<>>
    /\ forwardedVia = <<>>
    /\ rejected = <<>>
    /\ lastCall = [seq |-> 0]

\* time.time() moves on between calls.
Tick ==
    /\ \E d \in TickSteps : now + d <= MaxTime /\ now' = now + d
    /\ UNCHANGED <<rpm, timestamps, forwarded, forwardedVia, rejected, lastCall>>
    /\ UNCHANGED <<agentVars, fsVars, wsVars, orchVars>>

\* Which invoke of a backend an entry point uses: RateLimitedLLM.invoke
\* ("plain") or StructuredRateLimitedWrapper.invoke ("structured").
Via(name) ==
    IF name \in {"RateLimitedLLM", "FailoverLLM"} THEN "plain" ELSE "structured"

\* The bookkeeping common to every call: r is its CallResult.
Called(api, impl, r) ==
    /\ timestamps' = r.ts
    /\ forwarded' = [i \in Backends |->
                        IF i = r.served THEN Append(forwarded[i], now)
                        ELSE forwarded[i]]
    /\ forwardedVia' = [i \in Backends |->
                           IF i = r.served THEN Append(forwardedVia[i], Via(api.name))
                           ELSE forwardedVia[i]]
    /\ rejected' = [i \in Backends |->
                        IF i <= r.tried /\ i # r.served THEN rejected[i] + 1
                        ELSE rejected[i]]
    /\ lastCall' = [seq |-> lastCall.seq + 1, api |-> api, t |-> now,
                    impl |-> impl, served |-> r.served, result |-> r.result,
                    raisedBy |-> r.raisedBy, tried |-> r.tried]
    /\ UNCHANGED <<now, rpm>>
    /\ UNCHANGED <<agentVars, fsVars, wsVars, orchVars>>

\* backends[i].invoke(payload)
RateLimitedInvoke ==
    /\ lastCall.seq < MaxCalls
    /\ \E i \in Backends, impl \in ImplOutcomes :
          LET r == RLInvoke(timestamps[i], rpm[i], now)
              tss == [timestamps EXCEPT ![i] = r.ts]
          IN Called([name |-> "RateLimitedLLM", backend |-> i], impl,
                    IF ~r.admitted
                    THEN CallResult(tss, 0, "RateLimitExceeded", i, i)
                    ELSE IF impl = "ok" THEN CallResult(tss, i, "ok", 0, i)
                    ELSE CallResult(tss, i, "BackendError", i, i))

\* backends[i].with_structured_output(schema).invoke(payload)
StructuredInvoke ==
    /\ lastCall.seq < MaxCalls
    /\ \E i \in Backends, impl \in ImplOutcomes :
          LET r == SRLInvoke(timestamps[i], rpm[i], now)
              tss == [timestamps EXCEPT ![i] = r.ts]
          IN Called([name |-> "StructuredRateLimitedWrapper", backend |-> i],
                    impl,
                    IF ~r.admitted
                    THEN CallResult(tss, 0, "RateLimitExceeded", i, i)
                    ELSE IF impl = "ok" THEN CallResult(tss, i, "ok", 0, i)
                    ELSE CallResult(tss, i, "BackendError", i, i))

\* FailoverLLM(backends).invoke(payload)
FailoverInvoke ==
    /\ lastCall.seq < MaxCalls
    /\ \E impl \in ImplOutcomes :
          Called([name |-> "FailoverLLM", backend |-> 0], impl,
                 FailoverLoop(1, timestamps, rpm, 0, now, impl))

\* FailoverLLM(backends).with_structured_output(schema).invoke(payload)
StructuredFailoverInvoke ==
    /\ lastCall.seq < MaxCalls
    /\ \E impl \in ImplOutcomes :
          Called([name |-> "StructuredFailoverWrapper", backend |-> 0], impl,
                 StructuredFailoverLoop(1, timestamps, rpm, 0, now, impl))

LLMNext ==
    \/ Tick
    \/ RateLimitedInvoke
    \/ StructuredInvoke
    \/ FailoverInvoke
    \/ StructuredFailoverInvoke

(***************************************************************************)
(* The FsTool machine: a caller issues read, write and list requests.      *)
(***************************************************************************)
MaxFsOps == 3

FsRequests ==
    { Rel(<<N_a>>),
      Rel(<<DotDot, DotDot, N_etc, N_passwd>>),
      Rel(<<DotDot, N_logs, N_a>>),
      Abs(<<N_job2, N_a>>),
      Abs(<<N_job>>),
      Rel(<<N_a, N_a>>) }

FsContents == { <<"h", "i">> }

FsInitFiles ==
    (<<N_etc, N_passwd>> :> <<"r">>) @@ (<<N_job2, N_a>> :> <<"s">>)
        @@ (<<N_job, N_logs, N_a>> :> <<"l">>)
FsInitDirs ==
    { <<>>, <<N_etc>>, <<N_job2>>, <<N_job>>, <<N_job, N_logs>>, WorkDir }

FsInit ==
    /\ fsFiles = FsInitFiles
    /\ fsDirs = FsInitDirs
    /\ fsIO = {}
    /\ fsResult = <<>>

FsIdle ==
    /\ fsFiles = <<>>
    /\ fsDirs = {}
    /\ fsIO = {}
    /\ fsResult = <<>>

FsApply(r) ==
    /\ Len(fsResult) < MaxFsOps
    /\ fsFiles' = r.files
    /\ fsDirs' = r.dirs
    /\ fsIO' = fsIO \cup r.io
    /\ fsResult' = Append(fsResult, r.res)
    /\ UNCHANGED <<agentVars, llmVars, wsVars, orchVars>>

FsWrite ==
    \E path \in FsRequests, content \in FsContents :
        FsApply(FsWriteOp(fsFiles, fsDirs, path, content))

FsRead ==
    \E path \in FsRequests : FsApply(FsReadOp(fsFiles, fsDirs, path))

FsList ==
    \E path \in FsRequests \cup {None} : FsApply(FsListOp(fsFiles, fsDirs, path))

FsNext == FsWrite \/ FsRead \/ FsList

(***************************************************************************)
(* The work directory machine: ScaffoldTool.create calls and the packager  *)
(* (_package_outputs of graph.py, _find_app_dir / _finalize of main.py)    *)
(* over the entries of the work directory.  An entry is a file, a          *)
(* directory ("dir"), a directory that holds package.json ("app"), or a    *)
(* directory that holds package.json only in its subdirectory sub          *)
(* ("nested").                                                             *)
(***************************************************************************)
MaxWsOps == 2

N_sub == <<"s", "u", "b">>
EntryKinds == {"file", "dir", "app", "nested"}
WsNames == {N_demo, Suffixed(N_demo, 1)}
WsRequests == {<<>>, N_demo, <<"D", "e", "m", "o", "!">>}
\* What the scaffold command leaves at the project path.
MadeKinds == {"none", "dir", "app"}

WsIdle ==
    /\ wsEntries = <<>>
    /\ wsCall = None
    /\ wsOps = 0

WsInit ==
    /\ wsEntries \in UNION {[names -> EntryKinds] : names \in SUBSET WsNames}
    /\ wsCall = None
    /\ wsOps = 0

\* ScaffoldTool.create through scaffold_tool, on the work directory as it is.
WsScaffold ==
    /\ wsOps < MaxWsOps
    /\ \E recipe_id \in RecipeIds, name \in WsRequests, loaded \in BOOLEAN,
          proc \in ProcOutcomes, made \in MadeKinds :
          LET recipes == IF loaded THEN {KnownRecipe} ELSE {}
              existing == DOMAIN wsEntries
              project == ScaffoldName(name, existing)
              ran == recipe_id \in recipes
              after == IF ran /\ made # "none"
                       THEN (project :> made) @@ wsEntries
                       ELSE wsEntries
          IN /\ wsEntries' = after
             /\ wsCall' = [op |-> "scaffold", recipe_id |-> recipe_id,
                           recipes |-> recipes,
                           name |-> name, ran |-> ran, proc |-> proc,
                           existing |-> existing, after |-> DOMAIN after,
                           result |-> DoneHint(create(recipes, existing, proc,
                                                      project \in DOMAIN after,
                                                      recipe_id, name))]
    /\ wsOps' = wsOps + 1
    /\ UNCHANGED <<agentVars, llmVars, fsVars, orchVars>>

\* a search that takes any directory
AppDirsAnyDir(entries) ==
    {c \in DOMAIN entries : entries[c] \in {"dir", "app", "nested"}}

\* The entries c of work_dir with c.is_dir() and (c / "package.json").exists()
AppDirs(entries) == {c \in DOMAIN entries : entries[c] = "app"}

\* The archive made once the search has ended with app_dir (None: not found).
Archive(app_dir) ==
    IF app_dir = None
    THEN [filename |-> <<"artifact.zip">>, root_dir |-> WorkDir]
    ELSE [filename |-> <<app_dir, ".zip">>, root_dir |-> WorkDir \o <<app_dir>>]

\* _package_outputs: the loop over work_dir.iterdir() stops at the first app
\* directory; the order of iterdir is the file system's.
package_outputs(entries) ==
    IF AppDirs(entries) = {} THEN {Archive(None)}
    ELSE {Archive(c) : c \in AppDirs(entries)}

\* _find_app_dir and the archive _finalize makes of what it returns
finalize(entries) ==
    IF AppDirs(entries) = {} THEN {Archive(None)}
    ELSE {Archive(c) : c \in AppDirs(entries)}

Packaged(via, archives) ==
    /\ wsOps < MaxWsOps
    /\ \E a \in archives :
          wsCall' = [op |-> "package", via |-> via, entries |-> wsEntries,
                     archive |-> a]
    /\ wsOps' = wsOps + 1
    /\ UNCHANGED wsEntries
    /\ UNCHANGED <<agentVars, llmVars, fsVars, orchVars>>

WsPackageGraph == Packaged("_package_outputs", package_outputs(wsEntries))
WsPackageBrain == Packaged("_finalize", finalize(wsEntries))

WsNext == WsScaffold \/ WsPackageGraph \/ WsPackageBrain

(***************************************************************************)
(* ScaffoldTool._sanitize_name on its own: one call per requested name.    *)
(***************************************************************************)
MaxNameLen == 4

NameAlphabet == {"M", "y", "1", "-", "_", "!"}
ExampleName ==
    <<"M", "y", " ", "C", "o", "o", "l", " ", "A", "p", "p", "!", "!">>
NameInputs ==
    UNION {[1..n -> NameAlphabet] : n \in 0..MaxNameLen} \cup {ExampleName}

NameInit ==
    /\ wsCall \in {[op |-> "request", name |-> n] : n \in NameInputs}
    /\ wsEntries = <<>>
    /\ wsOps = 0

SanitizeCall ==
    /\ wsCall.op = "request"
    /\ wsCall' = [op |-> "_sanitize_name", name |-> wsCall.name,
                  result |-> sanitize_name(wsCall.name)]
    /\ wsOps' = wsOps + 1
    /\ UNCHANGED wsEntries
    /\ UNCHANGED <<agentVars, llmVars, fsVars, orchVars>>

NameNext == SanitizeCall

(***************************************************************************)
(* Two jobs on one host.  build_graph and AgentBrain.__init__ take the job *)
(* directory from _default_job_dir; the checkpoint of a graph run is kept  *)
(* in job_dir / "state.sqlite" under the thread id job_id.  The host holds *)
(* its work directories as path -> [kinds: name -> kind, by: name -> the   *)
(* job that made the entry].                                               *)
(***************************************************************************)
JobIds == {"job-1", "job-2"}
N_test_job == <<"t", "j">>
N_state == <<"s", "t", "a", "t", "e", ".", "s", "q", "l", "i", "t", "e">>
Cwd == <<<<"a", "p", "p">>>>

\* os.path.exists("/job") and os.environ.get("MODAL_ENVIRONMENT")
Envs == [job_exists : BOOLEAN, modal : BOOLEAN]

\* _default_job_dir
default_job_dir(env) ==
    IF env.job_exists \/ env.modal THEN <<N_job>> ELSE Cwd \o <<N_test_job>>

\* build_graph(job_id, task): the directories and the checkpoint key
build_graph(job_id, env) ==
    [job_dir |-> default_job_dir(env),
     work_dir |-> default_job_dir(env) \o <<N_workdir>>,
     chk_path |-> default_job_dir(env) \o <<N_state>>,
     thread_id |-> job_id]

\* AgentBrain.__init__(job_id, task): the directories; it keeps no
\* checkpoint (empty path, empty key)
AgentBrainDirs(job_id, env) ==
    [job_dir |-> default_job_dir(env),
     work_dir |-> default_job_dir(env) \o <<N_workdir>>,
     chk_path |-> <<>>,
     thread_id |-> ""]

\* The directories of a job, run by either engine.
JobDirs(job_id, env) == {build_graph(job_id, env), AgentBrainDirs(job_id, env)}

EmptyDir == [kinds |-> EmptyDict, by |-> EmptyDict]
\* d.mkdir(parents=True, exist_ok=True), then the directory's entries
DirOf(disk, d) == IF d \in DOMAIN disk THEN disk[d] ELSE EmptyDir
WithEntry(dir, name, kind, job_id) ==
    [kinds |-> (name :> kind) @@ dir.kinds, by |-> (name :> job_id) @@ dir.by]

JobsInit ==
    /\ wsEntries = EmptyDict
    /\ wsCall \in {[op |-> "host", env |-> e] : e \in Envs}
    /\ wsOps = 0

\* One call of a job on its work directory: the directory afterwards and
\* the record of the call.
JobCall(d, dir, call) ==
    /\ wsOps < MaxWsOps
    /\ wsEntries' = (d :> dir) @@ wsEntries
    /\ wsCall' = call @@ [env |-> wsCall.env, work_dir |-> d]
    /\ wsOps' = wsOps + 1
    /\ UNCHANGED <<agentVars, llmVars, fsVars, orchVars>>

\* fs_write of the relative path a
JobWrite ==
    \E job_id \in JobIds : \E dirs \in JobDirs(job_id, wsCall.env) :
        LET dir == DirOf(wsEntries, dirs.work_dir) IN
        /\ IF N_a \in DOMAIN dir.kinds THEN dir.kinds[N_a] = "file" ELSE TRUE
        /\ JobCall(dirs.work_dir, WithEntry(dir, N_a, "file", job_id),
                   [op |-> "fs_write", job |-> job_id, name |-> N_a])

\* fs_read of the relative path a
JobRead ==
    \E job_id \in JobIds : \E dirs \in JobDirs(job_id, wsCall.env) :
        LET dir == DirOf(wsEntries, dirs.work_dir) IN
        JobCall(dirs.work_dir, dir,
                [op |-> "fs_read", job |-> job_id, name |-> N_a,
                 ok |-> N_a \in DOMAIN dir.kinds,
                 by |-> IF N_a \in DOMAIN dir.kinds THEN dir.by[N_a] ELSE None])

\* scaffold of a project named demo, which the command makes
JobScaffold ==
    \E job_id \in JobIds : \E dirs \in JobDirs(job_id, wsCall.env) :
        LET dir == DirOf(wsEntries, dirs.work_dir)
            project == ScaffoldName(N_demo, DOMAIN dir.kinds)
        IN JobCall(dirs.work_dir, WithEntry(dir, project, "app", job_id),
                   [op |-> "scaffold", job |-> job_id, name |-> N_demo,
                    project |-> project, existing |-> dir.by])

\* _package_outputs / _finalize at the end of a job
JobPackage ==
    \E job_id \in JobIds : \E dirs \in JobDirs(job_id, wsCall.env) :
        LET dir == DirOf(wsEntries, dirs.work_dir) IN
        \E a \in package_outputs(dir.kinds) \cup finalize(dir.kinds) :
            JobCall(dirs.work_dir, dir,
                    [op |-> "package", job |-> job_id, archive |-> a,
                     by |-> {dir.by[c] : c \in {e \in AppDirs(dir.kinds) :
                                                  Archive(e) = a}}])

JobsNext == JobWrite \/ JobRead \/ JobScaffold \/ JobPackage

(***************************************************************************)
(* The orchestrator (orchestrator/app.py).  schedule spawns the Modal     *)
(* function run_job for a fresh job id and keeps the handle; status polls  *)
(* the handle without blocking.  The remote call runs run_agent_brain and  *)
(* either returns the mapping of _finalize or raises.                      *)
(***************************************************************************)
OrchJobIds == {"id-1", "id-2"}

OrchIdle ==
    /\ JOBS = <<>>
    /\ remote = <<>>
    /\ polled = <<>>

OrchInit ==
    /\ JOBS = [j \in OrchJobIds |-> None]
    /\ remote = [j \in OrchJobIds |-> "none"]
    /\ polled = [j \in OrchJobIds |-> None]

\* A job record: the keys status, handle, error, result and download_path
\* of JOBS[job_id], FALSE standing for a key that is absent.
Job(status, handle, error, result, download_path) ==
    [status |-> status, handle |-> handle, error |-> error,
     result |-> result, download_path |-> download_path]

\* schedule, when run_fn.spawn returns a handle
schedule_spawned(j) ==
    /\ JOBS[j] = None
    /\ JOBS' = [JOBS EXCEPT ![j] = Job("running", TRUE, FALSE, FALSE, FALSE)]
    /\ remote' = [remote EXCEPT ![j] = "running"]
    /\ UNCHANGED polled

\* schedule, when _get_modal_run_fn or spawn raises: the job stays queued
schedule_not_spawned(j) ==
    /\ JOBS[j] = None
    /\ JOBS' = [JOBS EXCEPT ![j] = Job("queued", FALSE, TRUE, FALSE, FALSE)]
    /\ UNCHANGED <<remote, polled>>

\* POST /schedule: job_id is a fresh uuid4.
schedule ==
    /\ \E j \in OrchJobIds : schedule_spawned(j) \/ schedule_not_spawned(j)
    /\ UNCHANGED <<agentVars, llmVars, fsVars, wsVars>>

\* The remote run_job returns the mapping of AgentBrain._finalize.
remote_returns ==
    /\ \E j \in OrchJobIds :
          /\ remote[j] = "running"
          /\ remote' = [remote EXCEPT ![j] = "returned"]
    /\ UNCHANGED <<JOBS, polled>>
    /\ UNCHANGED <<agentVars, llmVars, fsVars, wsVars>>

\* The remote run_job ends with an exception (run_agent_brain raises, or
\* the function's timeout passes).
remote_raises ==
    /\ \E j \in OrchJobIds :
          /\ remote[j] = "running"
          /\ remote' = [remote EXCEPT ![j] = "raised"]
    /\ UNCHANGED <<JOBS, polled>>
    /\ UNCHANGED <<agentVars, llmVars, fsVars, wsVars>>

\* The job record status leaves: handle.get(timeout=0) raises TimeoutError
\* while the call runs, re-raises the remote exception when the call has
\* raised, and returns the result otherwise; written is whether the
\* artifact could be decoded and written; any exception in the try block
\* sets the status to "running".
PolledJob(job, call, written) ==
    IF job.handle /\ job.status \in {"queued", "running"}
    THEN CASE call = "running" -> [job EXCEPT !.status = "running"]
           [] call = "raised" -> [job EXCEPT !.status = "running"]
           [] call = "returned" ->
                IF written
                THEN [job EXCEPT !.status = "complete", !.result = TRUE,
                                 !.download_path = TRUE]
                ELSE [job EXCEPT !.status = "running", !.result = TRUE]
    ELSE job

\* The body of the response of status.
StatusResponse(job, vnc_url) ==
    [status |-> job.status,
     download |-> job.status = "complete" /\ job.download_path,
     vnc_url |-> vnc_url]

\* GET /status/{job_id} for a job of the store; vnc_url is what the session
\* dictionary holds for the job (FALSE: nothing, or the lookup raised).
status ==
    /\ \E j \in OrchJobIds, written \in BOOLEAN, vnc_url \in BOOLEAN :
          /\ JOBS[j] # None
          /\ vnc_url => remote[j] = "running"
          /\ JOBS' = [JOBS EXCEPT ![j] = PolledJob(JOBS[j], remote[j], written)]
          /\ polled' = [polled EXCEPT ![j] = StatusResponse(JOBS'[j], vnc_url)]
    /\ UNCHANGED remote
    /\ UNCHANGED <<agentVars, llmVars, fsVars, wsVars>>

\* GET /status/{job_id} for an unknown job: HTTPException 404.
status_not_found ==
    /\ \E j \in OrchJobIds :
          /\ JOBS[j] = None
          /\ polled' = [polled EXCEPT ![j] = [status_code |-> 404]]
    /\ UNCHANGED <<JOBS, remote>>
    /\ UNCHANGED <<agentVars, llmVars, fsVars, wsVars>>

OrchNext ==
    \/ schedule
    \/ remote_returns
    \/ remote_raises
    \/ status
    \/ status_not_found

(***************************************************************************)
(* Specifications.                                                         *)
(***************************************************************************)
AgentIdle ==
    /\ engine = "none"
    /\ script = None
    /\ pc = "none"
    /\ messages = <<>>
    /\ task = ""
    /\ pending_action = None
    /\ tool_result = None
    /\ actions_taken = <<>>
    /\ last_result = None
    /\ done = FALSE
    /\ reason = NoneStr
    /\ steps = 0
    /\ outcome = "none"
    /\ shellRuns = <<>>
    /\ history = <<>>
    /\ context = <<>>
    /\ request = NoRequest
    /\ modelFailed = FALSE
    /\ store = "unused"
    /\ checkpoint = None

Init ==
    (script \in Scripts) /\ (GraphInit \/ BrainInit) /\ LLMIdle /\ FsIdle /\ WsIdle /\ OrchIdle
Next == AgentNext
Spec == Init /\ [][Next]_vars

\* The runs of a stubborn model, with the engine scheduled until it stops.
InitBudget ==
    /\ script \in StubbornScripts
    /\ GraphInit \/ BrainInit
    /\ LLMIdle /\ FsIdle /\ WsIdle /\ OrchIdle
SpecBudget == InitBudget /\ [][Next]_vars /\ WF_vars(Next)

\* Runs that may die and be resumed.
InitResume ==
    (script \in Scripts) /\ (GraphInit \/ BrainInit) /\ LLMIdle /\ FsIdle /\ WsIdle /\ OrchIdle
ResumeNext == AgentNext \/ crash \/ resume_graph_agent
SpecResume == InitResume /\ [][ResumeNext]_vars

\* AgentBrain.run with the fallback planner.
PlanNext == brain_step_fallback \/ brain_finalize
InitPlan == PlanInit /\ BrainInit /\ LLMIdle /\ WsIdle /\ OrchIdle
SpecPlan == InitPlan /\ [][PlanNext]_vars

InitLLM == LLMInit /\ AgentIdle /\ FsIdle /\ WsIdle /\ OrchIdle
SpecLLM == InitLLM /\ [][LLMNext]_vars

InitFs == FsInit /\ AgentIdle /\ LLMIdle /\ WsIdle /\ OrchIdle
SpecFs == InitFs /\ [][FsNext]_vars

InitWorkspace == WsInit /\ AgentIdle /\ LLMIdle /\ FsIdle /\ OrchIdle
SpecWorkspace == InitWorkspace /\ [][WsNext]_vars

InitSanitize == NameInit /\ AgentIdle /\ LLMIdle /\ FsIdle /\ OrchIdle
SpecSanitize == InitSanitize /\ [][NameNext]_vars

\* The orchestrator, with every job polled for as long as a poll of it
\* changes its response.
InitOrch == OrchInit /\ AgentIdle /\ LLMIdle /\ FsIdle /\ WsIdle
SpecOrch ==
    /\ InitOrch /\ [][OrchNext]_vars
    /\ \A j \in OrchJobIds : WF_vars(status /\ polled'[j] # polled[j])

InitJobs == JobsInit /\ AgentIdle /\ LLMIdle /\ FsIdle /\ OrchIdle
SpecJobs == InitJobs /\ [][JobsNext]_vars

(***************************************************************************)
(* Claims.                                                                 *)
(***************************************************************************)

\* C1: in the execution graph the record_result step, and no other step,
\* lengthens messages, by exactly one assistant entry followed by one tool
\* entry, and lengthens actions_taken by exactly one; so after every
\* completed cycle messages holds 2 entries per cycle beyond the initial
\* two and actions_taken one entry per cycle, whatever the tool and its
\* result.
RecordStep == pc = "record_result" /\ pc' = "maybe_interrupt"
C1_CycleGrowth ==
    /\ [](engine = "graph" =>
            /\ Len(messages) = 2 + 2 * Len(actions_taken)
            /\ Len(actions_taken) = (steps + 1) \div 4)
    /\ [][engine = "graph" =>
            IF RecordStep
            THEN /\ Len(messages') = Len(messages) + 2
                 /\ SubSeq(messages', 1, Len(messages)) = messages
                 /\ messages'[Len(messages) + 1].role = "assistant"
                 /\ messages'[Len(messages) + 2].role = "tool"
                 /\ Len(actions_taken') = Len(actions_taken) + 1
            ELSE /\ Len(messages') = Len(messages)
                 /\ Len(actions_taken') = Len(actions_taken)]_vars

\* Two cycles are complete and the second recorded a failed tool result.
C1_Witness ==
    /\ engine = "graph"
    /\ pc = "decide_action"
    /\ Len(actions_taken) = 2
    /\ Len(messages) = 6
    /\ "ok" \in DOMAIN last_result /\ ~last_result.ok

\* C2: done is monotonic in the graph and in the AgentBrain loop: no step
\* takes done from true back to false.
C2_DoneMonotonic == [][done => done']_vars

\* A step was taken after done became true.
C2_Witness == done /\ outcome = "success" /\ Len(actions_taken) = 2

(***************************************************************************)
(* Claims about the model clients.  Whether a backend is rate-limited is   *)
(* read off the calls that reached it, not off its deque.                  *)
(***************************************************************************)
\* The calls forwarded to backend i in the 60 seconds up to time t.
RecentForwarded(i, t) ==
    Cardinality({k \in 1..Len(forwarded[i]) : t - forwarded[i][k] <= Window})
Limited(i) == RecentForwarded(i, now) >= rpm[i]

\* This step is a call, through the named entry point.
CallStep(names) ==
    /\ lastCall'.seq # lastCall.seq
    /\ lastCall'.api.name \in names
\* This step is a call of backend i's own invoke.
DirectCall(i) ==
    /\ CallStep({"RateLimitedLLM"})
    /\ lastCall'.api.backend = i

IsSuffix(a, b) ==
    Len(a) <= Len(b) /\ a = SubSeq(b, Len(b) - Len(a) + 1, Len(b))

\* C3: with ceiling rpm[i] and calls at non-decreasing times, a call of
\* backend i made when rpm[i] calls were admitted in the preceding 60
\* seconds raises RateLimitExceeded at once (the clock does not move) and
\* reaches no backend; so no 60-second window holds more than rpm[i]
\* forwarded calls.
C3_WindowCeiling ==
    /\ [](\A i \in Backends : \A j \in 1..Len(forwarded[i]) :
            Cardinality({k \in j..Len(forwarded[i]) :
                            forwarded[i][k] - forwarded[i][j] <= Window})
                <= rpm[i])
    /\ [][\A i \in Backends :
            (DirectCall(i) /\ Limited(i)) =>
                /\ lastCall'.result = "RateLimitExceeded"
                /\ forwarded' = forwarded
                /\ now' = now]_vars

\* A call is rejected exactly 60 seconds after the call that filled the
\* window of a backend with ceiling 1.
C3_Witness ==
    /\ lastCall.seq > 0
    /\ lastCall.api.name = "RateLimitedLLM"
    /\ lastCall.result = "RateLimitExceeded"
    /\ rpm[lastCall.api.backend] = 1
    /\ forwarded[lastCall.api.backend] = <<0>>
    /\ lastCall.t = Window

\* C4: a backend accepts a call as soon as the oldest of its last rpm[i]
\* admitted calls is more than 60 seconds old, however many calls it has
\* rejected; and a rejected call leaves no timestamp in the deque.
C4_Recovery ==
    [][\A i \in Backends : DirectCall(i) =>
          LET n == Len(forwarded[i]) IN
          /\ (n < rpm[i] \/ now - forwarded[i][n - rpm[i] + 1] > Window)
                => lastCall'.result # "RateLimitExceeded"
          /\ lastCall'.result = "RateLimitExceeded"
                => IsSuffix(timestamps'[i], timestamps[i])]_vars

\* A backend with ceiling 1 has admitted a call, rejected one, and then
\* admitted another.
C4_Witness ==
    /\ lastCall.seq > 0
    /\ lastCall.api.name = "RateLimitedLLM"
    /\ lastCall.result = "ok"
    /\ rejected[lastCall.api.backend] >= 1
    /\ Len(forwarded[lastCall.api.backend]) = rpm[lastCall.api.backend] + 1

\* C5: when some backend is not rate-limited, FailoverLLM.invoke is served
\* by the first such backend in list order: the caller sees that backend's
\* result and no RateLimitExceeded, no later backend is touched, and the
\* rate-limited backends before it are not called and record no timestamp.
FirstFree == CHOOSE i \in Backends :
                ~Limited(i) /\ \A j \in Backends : j < i => Limited(j)
C5_FirstFreeServes ==
    [][(CallStep({"FailoverLLM"}) /\ \E i \in Backends : ~Limited(i)) =>
          /\ lastCall'.served = FirstFree
          /\ lastCall'.result # "RateLimitExceeded"
          /\ lastCall'.impl = "ok" => lastCall'.result = "ok"
          /\ forwarded'[FirstFree] = Append(forwarded[FirstFree], now)
          /\ \A j \in Backends :
                /\ j > FirstFree =>
                      timestamps'[j] = timestamps[j] /\ forwarded'[j] = forwarded[j]
                /\ j < FirstFree =>
                      /\ IsSuffix(timestamps'[j], timestamps[j])
                      /\ forwarded'[j] = forwarded[j]]_vars

\* Backend 1 is exhausted and the call succeeded through backend 2.
C5_Witness ==
    /\ lastCall.seq > 0
    /\ lastCall.api.name = "FailoverLLM"
    /\ lastCall.served = 2
    /\ lastCall.result = "ok"
    /\ rejected[1] >= 1

\* C6: in FailoverLLM.invoke and StructuredFailoverWrapper.invoke, when the
\* first backend that is not rate-limited raises another error, that error
\* reaches the caller, raised by that backend, and no later backend is
\* tried.
C6_OtherErrorPropagates ==
    [][(/\ CallStep({"FailoverLLM", "StructuredFailoverWrapper"})
        /\ lastCall'.impl = "error"
        /\ \E i \in Backends : ~Limited(i)) =>
          /\ lastCall'.result = "BackendError"
          /\ lastCall'.raisedBy = FirstFree
          /\ lastCall'.tried = FirstFree
          /\ \A j \in Backends : j > FirstFree =>
                timestamps'[j] = timestamps[j] /\ forwarded'[j] = forwarded[j]]_vars

\* Backend 1 of a two-backend chain raised another error, the caller got
\* it, and backend 2 was never called.
C6_Witness ==
    /\ lastCall.seq > 0
    /\ lastCall.api.name \in {"FailoverLLM", "StructuredFailoverWrapper"}
    /\ lastCall.result = "BackendError"
    /\ lastCall.raisedBy = 1
    /\ Len(rpm) = 2
    /\ forwarded[2] = <<>>

\* C7: FailoverLLM.invoke and StructuredFailoverWrapper.invoke raise the
\* RateLimitExceeded of the last backend when every backend is
\* rate-limited, and a RuntimeError (no rate-limit error) when the list is
\* empty; in both cases no call is forwarded.
C7_AllLimitedOrEmpty ==
    [][CallStep({"FailoverLLM", "StructuredFailoverWrapper"}) =>
          /\ Backends = {} =>
                /\ lastCall'.result = "RuntimeError"
                /\ lastCall'.raisedBy = 0
                /\ forwarded' = forwarded
          /\ (Backends # {} /\ \A i \in Backends : Limited(i)) =>
                /\ lastCall'.result = "RateLimitExceeded"
                /\ lastCall'.raisedBy = Len(rpm)
                /\ lastCall'.served = 0
                /\ forwarded' = forwarded]_vars

\* Both backends of a two-backend chain are exhausted and the caller got
\* the second one's rate-limit error.
C7_Witness ==
    /\ lastCall.seq > 0
    /\ lastCall.api.name = "FailoverLLM"
    /\ lastCall.result = "RateLimitExceeded"
    /\ lastCall.raisedBy = 2
    /\ Len(rpm) = 2

\* C8: FsTool.read, write and list touch the filesystem only for a request
\* whose resolved path is the allowed root or lies below it; any other
\* request, a sibling directory whose name starts with the root's name
\* included, is refused before any filesystem access.
C8_Confined == \A e \in fsIO : IsWithin(e.req, allowed_root)

\* C9: on both paths of a model-chosen shell command, the graph's shell
\* tool and the AgentBrain.run loop, a command that matches a deny pattern
\* is never handed to ShellTool.run.
C9_DeniedNeverRun ==
    \A k \in 1..Len(shellRuns) :
        shellRuns[k].via \in {"shell_tool", "AgentBrain.run"}
            => ~is_risky_command(shellRuns[k].command)

\* C10: when the model never ends the run, the run still ends: the graph
\* runs at most recursion_limit supersteps, the AgentBrain loop at most
\* max_steps iterations, the cycles executed never exceed either ceiling,
\* and the run eventually stops.
C10_StepCeiling ==
    /\ [](engine = "graph" =>
            (steps <= RecursionLimit /\ 4 * Len(actions_taken) <= RecursionLimit))
    /\ [](engine = "brain" =>
            (steps <= MaxSteps /\ Len(actions_taken) <= MaxSteps))
    /\ <>(outcome # "running")

\* The graph ran recursion_limit supersteps without done and was stopped.
C10_Witness ==
    /\ engine = "graph"
    /\ outcome = "GraphRecursionError"
    /\ steps = RecursionLimit
    /\ ~done
    /\ 4 * Len(actions_taken) = RecursionLimit

(***************************************************************************)
(* Claims about how a run ends.                                            *)
(***************************************************************************)
\* The step ceiling of the engine is used up and done is still false.
CeilingExhausted ==
    /\ ~done
    /\ \/ engine = "graph" /\ steps = RecursionLimit
       \/ engine = "brain" /\ steps = MaxSteps

\* C11: a run that has ended with its step ceiling used up and done still
\* false is not reported with the success status of a run that ended with
\* done true.
C11_CeilingNotSuccess ==
    (outcome # "running" /\ CeilingExhausted) => outcome # "success"

\* A tool result that reports a failure.
FailedResult(r) == r # None /\ "ok" \in DOMAIN r /\ r.ok = FALSE
ToolNodes ==
    {"run_shell", "run_fs_read", "run_fs_write", "finish_done", "run_scaffold"}
\* This step runs a node of the graph.
NodeRuns == engine = "graph" /\ steps' = steps + 1

\* C12: in the execution graph every tool node whose tool returns a result
\* hands over to record_result;
\* a result with ok = false (policy block, path violation, timeout,
\* non-zero exit, scaffold failure) is appended as the tool message and kept
\* as last_result, done stays false, the run is not ended, and
\* maybe_interrupt hands over to decide_action.
C12_FailureIsData ==
    /\ [][(NodeRuns /\ pc \in ToolNodes) =>
            pc' = "record_result" /\ outcome' = "running"]_vars
    /\ [][(NodeRuns /\ pc = "record_result" /\ FailedResult(tool_result)) =>
            /\ pc' = "maybe_interrupt"
            /\ messages'[Len(messages')] = Msg("tool", JsonFragment(tool_result))
            /\ Len(messages') = Len(messages) + 2
            /\ last_result' = tool_result
            /\ ~done'
            /\ outcome' = "running"]_vars
    /\ [][(NodeRuns /\ pc = "maybe_interrupt" /\ FailedResult(last_result)) =>
            pc' = "decide_action" /\ ~done' /\ outcome' = "running"]_vars

\* A blocked shell command was recorded and the graph is back at
\* decide_action with done false.
C12_Witness ==
    /\ engine = "graph"
    /\ pc = "decide_action"
    /\ outcome = "running"
    /\ ~done
    /\ FailedResult(last_result)
    /\ "exit_code" \in DOMAIN last_result
    /\ last_result.exit_code = BlockedExitCode
    /\ messages[Len(messages)] = Msg("tool", JsonFragment(last_result))

\* a is a contiguous part of b.
IsSubSeq(a, b) ==
    \E k \in 0..(Len(b) - Len(a)) : a = SubSeq(b, k + 1, k + Len(a))

\* C13: the request of every decide_action of the graph holds the whole
\* current messages sequence, in order: the initial system and user
\* entries, then the assistant and tool entries of every completed cycle.
C13_RequestHoldsMessages ==
    [][(NodeRuns /\ pc = "decide_action") =>
          IsSubSeq(messages, request')]_vars

\* C14: a run in which a model call raised (an error other than a rate
\* limit) ends as a failure: the failure is not turned into a done decision
\* and the run is not reported as a success.
C14_ModelFailureFatal ==
    modelFailed => (~done /\ outcome # "success")

\* C15: every mapping a tool node of the graph stores as tool_result, on
\* success and on failure, holds the key ok with a boolean value.
C15_ResultHasOk ==
    (engine = "graph" /\ tool_result # None) =>
        ("ok" \in DOMAIN tool_result /\ tool_result.ok \in BOOLEAN)

\* The first decision of the run was a scaffold and its result was ok.
FirstScaffoldSucceeded ==
    /\ Len(messages) >= 4
    /\ messages[3].content.json.tool = "scaffold"
    /\ Truthy(messages[4].content.json, "ok")

\* C16: once record_result has set done (a done decision, or a successful
\* scaffold carrying the done hint) the graph goes through maybe_interrupt
\* to END: no model call and no tool execution follows, and the run ends.
\* A run whose first decision is a scaffold that succeeds ends after one
\* cycle of four steps.
C16_DoneEndsRun ==
    /\ [](engine = "graph" /\ done => pc \in {"maybe_interrupt", "END"})
    /\ [][(NodeRuns /\ pc = "maybe_interrupt" /\ done) => pc' = "END"]_vars
    /\ [][(engine = "graph" /\ done) =>
            /\ request' = request
            /\ shellRuns' = shellRuns
            /\ tool_result' = tool_result
            /\ actions_taken' = actions_taken]_vars
    /\ [](engine = "graph" /\ FirstScaffoldSucceeded =>
            done /\ Len(actions_taken) = 1 /\ steps \in 3..4)
    /\ ((engine = "graph" /\ done) ~> (pc = "END" /\ outcome = "success"))

\* The first decision was a scaffold, it succeeded, and the run ended after
\* four steps.
C16_Witness ==
    /\ engine = "graph"
    /\ outcome = "success"
    /\ FirstScaffoldSucceeded
    /\ steps = 4
    /\ Len(actions_taken) = 1
    /\ done

(***************************************************************************)
(* Claims about the scaffold's project name and result, and the packager.  *)
(***************************************************************************)
\* The characters of a name that the sanitizer keeps as they are, bar case.
KeptChars(name) == {i \in 1..Len(name) : name[i] \in SlugChars \ {"-"}}

\* C17: for every requested name _sanitize_name returns a slug that is not
\* empty, holds only alphanumerics, hyphens and underscores, has no two
\* hyphens in a row and no hyphen at either end, and is my-app when no
\* character of the name remains; "My Cool App!!" gives my-cool-app.
C17_SanitizedSlug ==
    (wsCall # None /\ wsCall.op = "_sanitize_name") =>
        LET r == wsCall.result IN
        /\ r # <<>>
        /\ \A i \in 1..Len(r) : r[i] \in SlugChars
        /\ \A i \in 1..(Len(r) - 1) : ~(r[i] = "-" /\ r[i + 1] = "-")
        /\ r[1] # "-" /\ r[Len(r)] # "-"
        /\ KeptChars(wsCall.name) = {} => r = DefaultName
        /\ wsCall.name = ExampleName =>
              r = <<"m", "y", "-", "c", "o", "o", "l", "-", "a", "p", "p">>

\* "My Cool App!!" was sanitized to my-cool-app.
C17_Witness ==
    /\ wsCall # None
    /\ wsCall.op = "_sanitize_name"
    /\ wsCall.name = ExampleName
    /\ wsCall.result = <<"m", "y", "-", "c", "o", "o", "l", "-", "a", "p", "p">>


\* The name create settled on: the last word of the scaffold command.
ProjectOf(call) == call.result.command[4]
\* The sanitized name the collision loop started from.
SanitizedOf(call) ==
    sanitize_name(IF call.name = <<>> THEN DefaultName ELSE call.name)
ScaffoldRan == wsCall # None /\ wsCall.op = "scaffold" /\ wsCall.ran

\* C18: for a sanitized name n and the entries existing in the work
\* directory, create settles on n when n does not exist, and otherwise on
\* n-k for the least k >= 1 such that n-k does not exist; the name it
\* settles on never names an existing entry.
C18_CollisionFree ==
    ScaffoldRan =>
        LET n == SanitizedOf(wsCall)
            r == ProjectOf(wsCall)
            ex == wsCall.existing
        IN /\ r \notin ex
           /\ n \notin ex => r = n
           /\ n \in ex =>
                \E k \in 1..Cardinality(ex) :
                    /\ r = Suffixed(n, k)
                    /\ \A j \in 1..(k - 1) : Suffixed(n, j) \in ex

\* demo and demo-1 existed and create settled on demo-2.
C18_Witness ==
    /\ ScaffoldRan
    /\ {N_demo, Suffixed(N_demo, 1)} \subseteq wsCall.existing
    /\ ProjectOf(wsCall) = Suffixed(N_demo, 2)

\* The scaffold command of the last call exited with code 0.
ExitedZero == wsCall.proc.kind = "exit" /\ wsCall.proc.returncode = 0

\* C19: the scaffold tool's result has ok = true, and with it the done
\* hint, exactly when the scaffold command exited with code 0 and the
\* project directory exists afterwards; exit code 0 with the directory
\* missing gives ok = false without a done hint, which record_result does
\* not take for completion.
C19_VerifiedSuccess ==
    (wsCall # None /\ wsCall.op = "scaffold") =>
        LET res == wsCall.result
            verified == /\ wsCall.ran
                        /\ ExitedZero
                        /\ ProjectOf(wsCall) \in wsCall.after
        IN /\ res.ok \in BOOLEAN
           /\ res.ok <=> verified
           /\ Truthy(res, "done") <=> verified
           /\ ~verified =>
                /\ "done" \notin DOMAIN res
                /\ ~MarksDone(Action("scaffold", [recipe_id |-> wsCall.recipe_id]),
                              res)

\* The command exited with code 0, the project directory is missing, and
\* the result is a failure without a done hint.
C19_Witness ==
    /\ ScaffoldRan
    /\ ExitedZero
    /\ ProjectOf(wsCall) \notin wsCall.after
    /\ ~wsCall.result.ok
    /\ "done" \notin DOMAIN wsCall.result

\* The directories under the work directory that hold a package.json, as
\* paths relative to it: an "app" entry holds one itself, a "nested" entry
\* holds one in its subdirectory sub.
ManifestDirs(entries) ==
    {<<c>> : c \in {e \in DOMAIN entries : entries[e] = "app"}}
        \cup {<<c, N_sub>> : c \in {e \in DOMAIN entries : entries[e] = "nested"}}

\* The archive of the directory at path d, named after the directory.
ArchiveOf(d) ==
    [filename |-> <<d[Len(d)], ".zip">>, root_dir |-> WorkDir \o d]

PackagedFrom(dirs) ==
    (wsCall # None /\ wsCall.op = "package") =>
        IF dirs = {}
        THEN wsCall.archive =
                [filename |-> <<"artifact.zip">>, root_dir |-> WorkDir]
        ELSE \E d \in dirs : wsCall.archive = ArchiveOf(d)

\* C20 as stated: the packager archives a directory under the work
\* directory that holds a package.json whenever there is one, at any depth,
\* as <directory name>.zip, and archives the whole work directory as
\* artifact.zip only when there is none.
C20_AnyDepth == PackagedFrom(ManifestDirs(wsCall.entries))

\* C20: the packager archives an entry of the work directory that is a
\* directory and holds a package.json itself whenever there is one, as
\* <directory name>.zip, and archives the whole work directory as
\* artifact.zip only when no entry of the work directory is such a
\* directory.
C20_TopLevelManifest ==
    PackagedFrom({d \in ManifestDirs(wsCall.entries) : Len(d) = 1})

\* Next to a directory without a manifest of its own, a directory with one
\* was archived under its name.
C20_Witness ==
    /\ wsCall # None
    /\ wsCall.op = "package"
    /\ \E c, d \in DOMAIN wsCall.entries :
          /\ wsCall.entries[c] = "app"
          /\ wsCall.entries[d] \in {"dir", "nested"}
          /\ wsCall.archive.filename = <<c, ".zip">>

(***************************************************************************)
(* Claims about the carrier fields of the graph's state and about its      *)
(* dispatch.                                                               *)
(***************************************************************************)
\* C24: in every reachable state of the execution graph pending_action is
\* non-null exactly when the node about to run is a tool node or
\* record_result, that is between the end of decide_action and the end of
\* record_result, and tool_result is null whenever pending_action is null.
C24_CarrierWindow ==
    engine = "graph" =>
        /\ pending_action # None <=> pc \in ToolNodes \cup {"record_result"}
        /\ pending_action = None => tool_result = None

\* A cycle has ended: record_result has emptied both carriers.
C24_Witness ==
    /\ engine = "graph"
    /\ pc = "maybe_interrupt"
    /\ Len(actions_taken) = 1
    /\ pending_action = None
    /\ tool_result = None
    /\ last_result # None

\* C25: actions_taken is append-only and its i-th entry is the serialized
\* i-th decision: record_result appends the serialization of the pending
\* decision and no other step changes the list; a decision is made only
\* into an empty carrier, so that every recorded decision has one entry; the
\* i-th entry is the assistant message of the i-th cycle (graph) and the
\* action of the i-th history record (AgentBrain).
C25_ActionsLog ==
    /\ [][engine = "graph" =>
            IF RecordStep
            THEN /\ pending_action # None
                 /\ actions_taken' =
                        Append(actions_taken, JsonFragment(pending_action))
            ELSE actions_taken' = actions_taken]_vars
    /\ [][(NodeRuns /\ pc = "decide_action") =>
            (pending_action = None /\ pending_action' # None)]_vars
    /\ [](engine = "graph" =>
            \A i \in 1..Len(actions_taken) :
                messages[2 * i + 1] = Msg("assistant", actions_taken[i]))
    /\ [](engine = "brain" =>
            /\ Len(actions_taken) = Len(history)
            /\ \A i \in 1..Len(actions_taken) :
                  actions_taken[i] = JsonFragment(history[i].action))

\* Two different decisions were recorded, in the order they were made.
C25_Witness ==
    /\ engine = "graph"
    /\ Len(actions_taken) = 2
    /\ actions_taken[1] # actions_taken[2]
    /\ actions_taken[2] = messages[5].content

\* C29 as stated: when decide_action leaves pending_action absent, the
\* branch sends the run back to decide_action with the state unchanged; the
\* run does not fail and no tool node is entered.
C29_NoDecisionLoopsBack ==
    [][(/\ engine = "graph"
        /\ pc = "decide_action"
        /\ outcome = "running"
        /\ WithinLimit(steps)
        /\ request' = DecideRequest(task, messages)
        /\ pending_action' = None
        /\ ~modelFailed') =>
            /\ pc' = "decide_action"
            /\ outcome' = "running"
            /\ UNCHANGED <<messages, actions_taken, tool_result, done>>]_vars

\* The node that runs the executor of a tool.
NodeOf(tool) ==
    CASE tool = "shell" -> "run_shell"
      [] tool = "fs_read" -> "run_fs_read"
      [] tool = "fs_write" -> "run_fs_write"
      [] tool = "scaffold" -> "run_scaffold"
      [] tool = "done" -> "finish_done"

\* C30: in every cycle of the execution graph one tool node runs, after the
\* cycle's decide_action and before its record_result, and it is the node
\* of pending_action.tool: a decision is followed by the node of its tool, a
\* tool node runs its own tool's decision once and, when the tool returns,
\* fills tool_result and hands over to record_result, and a tool node is
\* entered from decide_action only.
C30_OneMatchingExecutor ==
    /\ [][(NodeRuns /\ pc = "decide_action") =>
            pc' = NodeOf(pending_action'.tool)]_vars
    /\ [][(NodeRuns /\ pc \in ToolNodes) =>
            /\ pending_action # None
            /\ pc = NodeOf(pending_action.tool)
            /\ pending_action' = pending_action
            /\ tool_result = None
            /\ tool_result' # None
            /\ pc' = "record_result"]_vars
    /\ [][(engine = "graph" /\ pc' \in ToolNodes /\ pc' # pc) =>
            pc = "decide_action"]_vars
    /\ [](engine = "graph" /\ pc = "record_result" => tool_result # None)

\* A scaffold decision is pending and its executor has filled tool_result.
C30_Witness ==
    /\ engine = "graph"
    /\ pc = "record_result"
    /\ pending_action # None
    /\ pending_action.tool = "scaffold"
    /\ tool_result # None
    /\ Len(actions_taken) = 1

(***************************************************************************)
(* Claims about ShellTool.run.                                             *)
(***************************************************************************)
\* The results of the shell commands of this run that the state holds: the
\* graph's tool_result after run_shell, AgentBrain's history records.
ShellResults ==
    IF engine = "graph"
    THEN IF pc = "record_result" /\ pending_action.tool = "shell"
         THEN {tool_result} ELSE {}
    ELSE {history[i].result :
             i \in {k \in 1..Len(history) : history[k].action.tool = "shell"}}

\* The run's world, when every command of the run meets the same one.
TimesOut == script.mode = "stubborn" /\ script.w.proc.kind = "timeout"

\* C28: a command that exceeds its timeout gives a result, not an
\* exception, with ok = false and exit_code = 124; in every result of
\* ShellTool.run ok is true exactly when exit_code is 0.
C28_ShellResult ==
    \A r \in ShellResults :
        /\ r.ok \in BOOLEAN
        /\ r.ok <=> r.exit_code = 0
        /\ (TimesOut /\ r.exit_code # BlockedExitCode) =>
              (r.exit_code = TimeoutExitCode /\ ~r.ok)

\* A command handed to ShellTool.run ran into the timeout.
C28_Witness ==
    /\ TimesOut
    /\ shellRuns # <<>>
    /\ \E r \in ShellResults : r.exit_code = TimeoutExitCode /\ ~r.ok

(***************************************************************************)
(* Claims about the results of FsTool.                                     *)
(***************************************************************************)
\* This step is an FsTool operation that returned r.
FsReturned(r) == fsResult' = Append(fsResult, r)

C26_SharedWindow ==
    /\ [](\A i \in Backends :
            /\ Len(forwardedVia[i]) = Len(forwarded[i])
            /\ \A j \in 1..Len(forwarded[i]) :
                  Cardinality({k \in j..Len(forwarded[i]) :
                                  forwarded[i][k] - forwarded[i][j] <= Window})
                      <= rpm[i])
    /\ [][\A i \in Backends :
            (/\ CallStep({"RateLimitedLLM", "StructuredRateLimitedWrapper"})
             /\ lastCall'.api.backend = i) =>
                IF Limited(i)
                THEN /\ lastCall'.result = "RateLimitExceeded"
                     /\ forwarded' = forwarded
                     /\ timestamps'[i] = Evict(timestamps[i], now)
                ELSE /\ forwarded'[i] = Append(forwarded[i], now)
                     /\ timestamps'[i] = Append(Evict(timestamps[i], now), now)]_vars

\* A structured call was rejected because of a plain call forwarded to the
\* same backend within the window.
C26_Witness ==
    /\ lastCall.seq > 0
    /\ lastCall.api.name = "StructuredRateLimitedWrapper"
    /\ lastCall.result = "RateLimitExceeded"
    /\ rpm[lastCall.api.backend] = 2
    /\ \E k \in 1..Len(forwarded[lastCall.api.backend]) :
          /\ forwardedVia[lastCall.api.backend][k] = "plain"
          /\ lastCall.t - forwarded[lastCall.api.backend][k] <= Window
    /\ \E k \in 1..Len(forwarded[lastCall.api.backend]) :
          /\ forwardedVia[lastCall.api.backend][k] = "structured"
          /\ lastCall.t - forwarded[lastCall.api.backend][k] <= Window

(***************************************************************************)
(* Claims about jobs running side by side.                                 *)
(***************************************************************************)
\* C21 as stated: two jobs with distinct ids have work directories of
\* their own, so that under any interleaving a job reads only files it
\* wrote itself, its scaffold collides only with projects it made itself,
\* and it archives only a project it made itself.
C21_JobsIndependent ==
    wsCall.op # "host" =>
        /\ \A other \in JobIds \ {wsCall.job} :
              \A dirs \in JobDirs(other, wsCall.env) :
                  dirs.work_dir # wsCall.work_dir
        /\ (wsCall.op = "fs_read" /\ wsCall.ok) => wsCall.by = wsCall.job
        /\ wsCall.op = "scaffold" =>
              \A n \in DOMAIN wsCall.existing :
                  wsCall.existing[n] = wsCall.job
        /\ wsCall.op = "package" => wsCall.by \subseteq {wsCall.job}

(***************************************************************************)
(* Claims about the checkpoint store.                                      *)
(***************************************************************************)
\* Whether the run of a stubborn model ends by a done decision or a done
\* hint: read off the decision and the world, not off the store.
StubbornEnds ==
    \/ script.d.tool = "done"
    \/ /\ script.d.tool = "scaffold"
       /\ scaffold_tool(script.w, script.d.args.recipe_id, ArgName(script.d)).ok

\* C22 as stated: when the checkpoint store cannot be created or opened
\* the graph is still built and the job runs to the outcome it reaches
\* with persistence, the one its decisions and its world give; the store
\* never fails the job.
C22_StoreUnavailable ==
    (engine = "graph" /\ store # "opens") =>
        /\ outcome \notin {"AttributeError"}
        /\ (script.mode = "stubborn" /\ script.d \in Decisions /\ outcome # "running") =>
              outcome = IF modelFailed THEN "ModelError"
                        ELSE IF StubbornEnds THEN "success"
                        ELSE "GraphRecursionError"

\* C23 as stated: with checkpointing enabled the state is persisted under
\* the job id after each completed cycle, and a run resumed for that job id
\* continues from the last recorded state (its messages, actions_taken and
\* done) rather than from the initial state.
C23_ResumeContinues ==
    /\ [](engine = "graph" /\ store = "opens" /\ steps > 0 =>
            /\ checkpoint # None
            /\ checkpoint.values = Snapshot)
    /\ [][(/\ engine = "graph"
           /\ outcome = "crashed"
           /\ outcome' # "crashed"
           /\ checkpoint # None) =>
              /\ outcome' = "running"
              /\ messages' = checkpoint.values.messages
              /\ actions_taken' = checkpoint.values.actions_taken
              /\ done' = checkpoint.values.done
              /\ pc' = checkpoint.next]_vars

(***************************************************************************)
(* Claims about the completion flag.                                       *)
(***************************************************************************)
\* C31: a record_result step sets done and copies the result's reason
\* exactly when the recorded decision's tool is done or the result carries
\* a truthy done flag; every other record_result step leaves done and
\* reason as they were.
C31_DoneExactly ==
    [][(engine = "graph" /\ pc = "record_result" /\ pc' = "maybe_interrupt") =>
          IF pending_action.tool = "done"
             \/ ("done" \in DOMAIN last_result' /\ last_result'.done = TRUE)
          THEN /\ done'
               /\ reason' = IF "reason" \in DOMAIN last_result'
                             THEN last_result'.reason ELSE NoneStr
          ELSE done' = done /\ reason' = reason]_vars

\* A scaffold decision whose result carried the done flag has been
\* recorded: done is set and reason is the result's reason.
C31_Witness ==
    /\ engine = "graph" /\ pc = "maybe_interrupt"
    /\ done /\ reason # NoneStr
    /\ last_result.done = TRUE /\ reason = last_result.reason
    /\ Len(actions_taken) = 1
    /\ actions_taken[1].json.tool = "scaffold"
(***************************************************************************)
(* Claims about the two failover entry points.                             *)
(***************************************************************************)
\* C32: over a backend list in which every backend supports structured
\* output, and in any state of the backends' windows, the invoke of
\* StructuredFailoverWrapper and the invoke of FailoverLLM make the same
\* choice: the same backend serves or the same class of error is raised
\* (by the same backend), and the same deques change in the same way.
C32_SameChoice ==
    \A impl \in ImplOutcomes :
        LET plain == FailoverLoop(1, timestamps, rpm, 0, now, impl)
            structured == StructuredFailoverLoop(1, timestamps, rpm, 0, now, impl)
        IN /\ structured.served = plain.served
           /\ structured.result = plain.result
           /\ structured.raisedBy = plain.raisedBy
           /\ structured.ts = plain.ts

\* The structured entry point has just failed over: the first backend's
\* window was full and the second backend served the call.
C32_Witness ==
    /\ lastCall.seq > 0
    /\ lastCall.api.name = "StructuredFailoverWrapper"
    /\ lastCall.served = 2
    /\ Len(timestamps[1]) >= rpm[1]
(***************************************************************************)
(* Claims about the recipe lookup.                                         *)
(***************************************************************************)
\* create has returned.
ScaffoldCalled == wsCall # None /\ wsCall.op = "scaffold"

\* C33: create with a recipe identifier that is not in the registry (an
\* empty registry when it could not be loaded) returns ok = false naming
\* the offered identifier and the known identifiers; the result holds no
\* sanitized name and no command, no command was run and the entries of
\* the working directory are what they were.
C33_UnknownRecipe ==
    (ScaffoldCalled /\ wsCall.recipe_id \notin wsCall.recipes) =>
        /\ ~wsCall.result.ok
        /\ DOMAIN wsCall.result = {"ok", "error", "offered", "available"}
        /\ wsCall.result.offered = wsCall.recipe_id
        /\ wsCall.result.available = wsCall.recipes
        /\ ~wsCall.ran
        /\ wsCall.after = wsCall.existing

\* The registry could not be loaded, the known recipe was asked for with a
\* name that needs sanitizing, and the call failed.
C33_Witness ==
    /\ ScaffoldCalled
    /\ wsCall.recipes = {}
    /\ wsCall.recipe_id = KnownRecipe
    /\ wsCall.name = <<"D", "e", "m", "o", "!">>
    /\ wsCall.existing # {}
    /\ ~wsCall.result.ok
(***************************************************************************)
(* Claims about the conversation record.                                   *)
(***************************************************************************)
\* C34: messages is append-only: every step of a run leaves the messages
\* it found as a prefix of the messages it leaves (no entry is removed,
\* modified or reordered), so the messages of any earlier state are a
\* prefix of those of every later state; and task never changes.
C34_AppendOnly ==
    [][/\ Len(messages') >= Len(messages)
       /\ SubSeq(messages', 1, Len(messages)) = messages
       /\ task' = task]_vars

\* Two cycles have been recorded after the initial system and user
\* entries, and the task is the one the run was created with.
C34_Witness ==
    /\ engine = "graph"
    /\ Len(messages) = 6
    /\ messages[1] = Msg("system", SYSTEM_TEXT)
    /\ messages[2] = Msg("user", [text |-> TaskText])
    /\ messages[5].role = "assistant" /\ messages[6].role = "tool"
    /\ task = TaskText
(***************************************************************************)
(* Claims about decisions with null fields.                                *)
(***************************************************************************)
\* C35 as stated: every decision that is a valid RouterAction, whichever
\* fields of its argument bag are None, makes its tool node produce a
\* tool_result and reach record_result; no such decision raises out of
\* the tool node and ends the run.
C35_NullFieldsReachRecord ==
    [][(engine = "graph" /\ outcome = "running" /\ pc \in ToolNodes
            /\ WithinLimit(steps)) =>
          /\ pc' = "record_result"
          /\ tool_result' # None
          /\ outcome' = "running"]_vars
(***************************************************************************)
(* Claims about the orchestrator.                                          *)
(***************************************************************************)
\* C36 as stated: a scheduled job whose remote run has ended in failure is
\* eventually reported by status with a status other than "running"; it
\* is not reported as "running" on every later poll.
C36_FailureReported ==
    \A j \in OrchJobIds :
        [](remote[j] = "raised" =>
              <>("status" \in DOMAIN polled[j] /\ polled[j].status # "running"))
(***************************************************************************)
(* Claims about calls that fail inside the backend.                        *)
(***************************************************************************)
\* C37: the timestamp of an admitted call is in the deque before the call
\* is forwarded, so a call that raises inside the backend holds a slot of
\* the 60-second window like one that returns; when rpm[i] calls were
\* admitted in the preceding 60 seconds, whether they returned or raised,
\* the next call of backend i, plain or structured, is rejected with
\* RateLimitExceeded and reaches no backend.
C37_FailedCallHoldsSlot ==
    [][\A i \in Backends :
          (/\ CallStep({"RateLimitedLLM", "StructuredRateLimitedWrapper"})
           /\ lastCall'.api.backend = i) =>
              /\ lastCall'.result \in {"ok", "BackendError"} =>
                    /\ lastCall'.served = i
                    /\ forwarded'[i] = Append(forwarded[i], now)
                    /\ timestamps'[i] = Append(Evict(timestamps[i], now), now)
              /\ Limited(i) =>
                    /\ lastCall'.result = "RateLimitExceeded"
                    /\ lastCall'.served = 0
                    /\ forwarded' = forwarded
              /\ (/\ lastCall.seq > 0
                  /\ lastCall.result = "BackendError"
                  /\ lastCall.served = i
                  /\ now - lastCall.t <= Window
                  /\ Len(Evict(timestamps[i], now)) >= rpm[i]) =>
                    lastCall'.result = "RateLimitExceeded"]_vars

\* A backend with ceiling 2 has admitted two calls within 60 seconds; the
\* second of them raised inside the backend and holds the last slot of the
\* window.
C37_Witness ==
    /\ lastCall.seq > 0
    /\ lastCall.api.name \in {"RateLimitedLLM", "StructuredRateLimitedWrapper"}
    /\ lastCall.result = "BackendError"
    /\ rpm[lastCall.api.backend] = 2
    /\ Len(timestamps[lastCall.api.backend]) = 2
    /\ timestamps[lastCall.api.backend][2] = lastCall.t
    /\ Limited(lastCall.api.backend)
(***************************************************************************)
(* Claims about the fallback planner.                                      *)
(***************************************************************************)
\* The phase of a decision of the planner: create the project, install
\* the dependencies, build, done.
PlanPhase(action) ==
    IF action.tool = "done" THEN 4
    ELSE IF action.args.command = CmdBuild THEN 3
    ELSE IF action.args.command = CmdInstall THEN 2
    ELSE 1

\* C38: when AgentBrain runs without a model its decisions come in the
\* order create project, install dependencies, build, done (a decision is
\* never followed by one of an earlier phase).  done is emitted only when
\* the project directory exists and, if it holds a package.json, both
\* node_modules and dist exist; install only when package.json exists and
\* node_modules does not; build only when package.json and node_modules
\* exist and dist does not; and the project is created only while its
\* directory is missing.
C38_PlanOrder ==
    [][(engine = "brain" /\ script = Fallback /\ steps' = steps + 1) =>
          LET d == history'[Len(history')].action
              app == AppDir \in fsDirs
              pkg == (AppDir \o <<N_package_json>>) \in DOMAIN fsFiles
              node_modules == (AppDir \o <<N_node_modules>>) \in fsDirs
              dist == (AppDir \o <<N_dist>>) \in fsDirs
          IN /\ Len(history') = Len(history) + 1
             /\ PlanPhase(d) = 4 => app /\ (pkg => node_modules /\ dist)
             /\ PlanPhase(d) = 2 => pkg /\ ~node_modules
             /\ PlanPhase(d) = 3 => pkg /\ node_modules /\ ~dist
             /\ PlanPhase(d) = 1 =>
                   ~app /\ d.args.command \in {CmdCreate, CmdCreateWithVite}
             /\ history # <<>> =>
                   PlanPhase(d) >= PlanPhase(history[Len(history)].action)]_vars

\* From an empty work directory the planner created the project (at the
\* second attempt, after a missing program), installed, built and said
\* done.
C38_Witness ==
    /\ engine = "brain" /\ script = Fallback
    /\ done
    /\ Len(history) = 5
    /\ history[1].action.args.command = CmdCreate
    /\ history[2].action.args.command = CmdCreateWithVite
    /\ history[3].action.args.command = CmdInstall
    /\ history[4].action.args.command = CmdBuild
    /\ history[5].action.tool = "done"
====
